---- MODULE Spec2Model ----
(***************************************************************************)
(* A model of the index store of fms (src/tag_db.rs), the query engine on  *)
(* top of it (src/search.rs) and the callers that share its connection.    *)
(*                                                                         *)
(* The store is an in-memory SQLite connection behind one Mutex.  Every    *)
(* SQL statement of the source is an operator on a connection value and    *)
(* every public method is a sequence of steps of a thread: take the lock,  *)
(* run its statements one by one (each statement commits on its own, the   *)
(* source opens no transaction), return and drop the lock.                 *)
(*                                                                         *)
(* TEXT values (paths, names, file types, queries) are sequences of        *)
(* one-character strings, so that trailing separators, letter case and     *)
(* the collation order of the source can be computed and not assumed.      *)
(***************************************************************************)
EXTENDS Integers, Sequences, FiniteSets, Bags, TLC

VARIABLES
    conn,      \* the SQLite connection: its tables and its foreign-key switch
    lock,      \* the holder of Mutex<Connection>, or NoThread
    pc,        \* pc[t]: the statement thread t is about to run
    arg,       \* arg[t]: the arguments of the call thread t is in
    ret,       \* ret[t]: the Result the call of thread t is about to return
    snap,      \* snap[t]: the tables as they were when thread t entered its call
    attached,  \* the tag names that add_tag_to_file was ever called with
    writes,    \* the number of insert_file and add_tag_to_file calls so far
    disk,      \* the filesystem the crawler reads
    crawl,     \* crawl[t]: the walk thread t is in, and what it has done
    app        \* the FileManagerApp: its fields and the threads it spawned

vars == <<conn, lock, pc, arg, ret, snap, attached, writes, disk, crawl, app>>

(***************************************************************************)
(* Bounds of the model.                                                    *)
(***************************************************************************)
NThreads == 2      \* threads sharing the store (crawlers and query callers)
MaxWrites == 3     \* calls of insert_file and add_tag_to_file in one run
MaxIndexed == 3    \* calls of insert_file before the tree is browsed
MaxLimit == 2      \* the LIMIT clauses the statement of search is tried with
MaxCrawls == 2     \* jobs a crawler thread is given in one run
MaxFrames == 2     \* calls of update before the application is closed
MaxRecords == 2    \* calls of insert_file completed while the list is shown

Threads == 1 .. NThreads
NoThread == 0

\* The one thread of the browsing specification.
Browsers == {1}

(***************************************************************************)
(* Text.                                                                   *)
(***************************************************************************)
\* Option<T>: None is the empty sequence, Some(x) the one-element sequence.
None == << >>
Some(x) == << x >>
IsSome(o) == Len(o) = 1
Unwrap(o) == o[1]

\* The code points of the characters the model uses (BINARY collation
\* compares the UTF-8 bytes, which keeps the order of the code points).
Code(c) ==
    CASE c = "%" -> 37
      [] c = "/" -> 47
      [] c = "A" -> 65
      [] c = "B" -> 66
      [] c = "_" -> 95
      [] c = "a" -> 97
      [] c = "b" -> 98
      [] c = "c" -> 99
      [] c = "d" -> 100
      [] c = "e" -> 101
      [] c = "f" -> 102
      [] c = "i" -> 105
      [] c = "k" -> 107
      [] c = "l" -> 108
      [] c = "o" -> 111
      [] c = "r" -> 114
      [] c = "t" -> 116
      [] c = "w" -> 119
      [] c = "y" -> 121
      [] c = "É" -> 201
      [] c = "é" -> 233

\* SQLite's built-in case folding, used by LOWER() and by LIKE: the ASCII
\* letters only, every other character is left as it is.
LowerChar(c) ==
    CASE c = "A" -> "a"
      [] c = "B" -> "b"
      [] OTHER -> c

\* LOWER(X) of SQL.
Lower(s) == [i \in 1 .. Len(s) |-> LowerChar(s[i])]

\* Rust's char lowercase mapping: Unicode, so it also folds the letters
\* outside ASCII.
ToLowercaseChar(c) ==
    CASE c = "É" -> "é"
      [] OTHER -> LowerChar(c)

\* str::to_lowercase
to_lowercase(s) == [i \in 1 .. Len(s) |-> ToLowercaseChar(s[i])]

\* s < t in the BINARY collation: byte-wise, a proper prefix sorts first.
RECURSIVE TextLess(_, _)
TextLess(s, t) ==
    IF t = << >> THEN FALSE
    ELSE IF s = << >> THEN TRUE
    ELSE IF Code(Head(s)) # Code(Head(t)) THEN Code(Head(s)) < Code(Head(t))
    ELSE TextLess(Tail(s), Tail(t))

(***************************************************************************)
(* normalize_path: drops ONE trailing '/' unless the path is one           *)
(* character long.                                                         *)
(***************************************************************************)
EndsWithSlash(s) == Len(s) > 0 /\ s[Len(s)] = "/"

\* Faulty variant: the path is used as given.
NoNormalize(path) == path

normalize_path(path) ==
    IF EndsWithSlash(path) /\ Len(path) > 1
    THEN SubSeq(path, 1, Len(path) - 1)
    ELSE path

(***************************************************************************)
(* FileEntry and FileType (tag_db.rs 14-28) and their TEXT forms.          *)
(***************************************************************************)
File == "File"
Directory == "Directory"

SqlFile == << "f", "i", "l", "e" >>
SqlDirectory == << "d", "i", "r", "e", "c", "t", "o", "r", "y" >>

\* insert_file's match on entry.file_type (lines 111-114).
FileTypeToSql(ft) == IF ft = File THEN SqlFile ELSE SqlDirectory

\* The match of every query's row mapper: "file", "directory", _ => File.
SqlToFileType(txt) ==
    IF txt = SqlFile THEN File
    ELSE IF txt = SqlDirectory THEN Directory
    ELSE File

FileEntry(path, name, file_type, size, modified, parent) ==
    [path |-> path, name |-> name, file_type |-> file_type,
     size |-> size, modified |-> modified, parent |-> parent]

(***************************************************************************)
(* The schema built by TagDatabase::new.  files is a rowid table keyed by  *)
(* path; tags and file_tags are kept as bags of rows so that a duplicate   *)
(* row would show; files_fts is the set of entries written to the fts5     *)
(* index.  foreign_keys is SQLite's enforcement switch: the source never   *)
(* sets the pragma, so it has the default of the SQLite library the        *)
(* program is linked with (on in rusqlite's bundled build, off in a stock  *)
(* system library).                                                        *)
(***************************************************************************)
EmptyConn(fk) ==
    [files |-> {}, tags |-> EmptyBag, file_tags |-> EmptyBag,
     files_fts |-> {}, foreign_keys |-> fk]

Tables(c) ==
    [files |-> c.files, tags |-> c.tags, file_tags |-> c.file_tags,
     files_fts |-> c.files_fts]

StmtOk(c) == [ok |-> TRUE, conn |-> c]
StmtErr(c) == [ok |-> FALSE, conn |-> c]

MaxOf(S) == CHOOSE x \in S : \A y \in S : y <= x

\* The rowid SQLite gives a new row of a rowid table: one past the largest.
NextRowid(c) ==
    IF c.files = {} THEN 1 ELSE MaxOf({r.rowid : r \in c.files}) + 1

RemoveRows(bag, gone) == [r \in {x \in DOMAIN bag : x \notin gone} |-> bag[r]]

AddRow(bag, row) == bag (+) SetToBag({row})

\* ON DELETE CASCADE of file_tags.file_path, when foreign keys are enforced.
CascadeFileDelete(c, paths) ==
    IF c.foreign_keys
    THEN RemoveRows(c.file_tags,
                    {l \in DOMAIN c.file_tags : l.file_path \in paths})
    ELSE c.file_tags

\* A row of files built from a FileEntry: the parameters of lines 108-118.
FileRow(rowid, entry) ==
    [rowid     |-> rowid,
     path      |-> normalize_path(entry.path),
     name      |-> entry.name,
     file_type |-> FileTypeToSql(entry.file_type),
     size      |-> entry.size,
     modified  |-> entry.modified,
     parent    |-> IF IsSome(entry.parent)
                   THEN Some(normalize_path(Unwrap(entry.parent)))
                   ELSE None]

\* Faulty variant: a plain INSERT into a table without the primary key on path.
InsertFileKeepingOld(c, entry) ==
    StmtOk([c EXCEPT !.files = c.files \cup {FileRow(NextRowid(c), entry)}])

\* Faulty variant: INSERT OR IGNORE, the first write wins.
InsertOrIgnoreFile(c, entry) ==
    IF \E r \in c.files : r.path = normalize_path(entry.path)
    THEN StmtOk(c)
    ELSE StmtOk([c EXCEPT !.files = c.files \cup {FileRow(NextRowid(c), entry)}])

\* Faulty variant: on a conflict only name and file_type are updated, the
\* other columns keep what the earlier writer stored.
InsertMergingFile(c, entry) ==
    LET row      == FileRow(NextRowid(c), entry)
        conflict == {r \in c.files : r.path = row.path}
    IN  IF conflict = {}
        THEN StmtOk([c EXCEPT !.files = c.files \cup {row}])
        ELSE StmtOk([c EXCEPT !.files =
                        (c.files \ conflict)
                        \cup {[r EXCEPT !.name = row.name,
                                        !.file_type = row.file_type] :
                                 r \in conflict}])

\* Faulty variant: the unique key of files is the name, so that a record
\* replaces the record of another path that has the same name.
InsertReplacingName(c, entry) ==
    LET row      == FileRow(NextRowid(c), entry)
        conflict == {r \in c.files : r.name = row.name}
    IN  StmtOk([c EXCEPT !.files = (c.files \ conflict) \cup {row},
                         !.file_tags = CascadeFileDelete(c, {r.path : r \in conflict})])

\* INSERT OR REPLACE INTO files (lines 105-119): the rows that conflict on
\* the primary key are deleted (with their cascade) and the new row is
\* inserted under a fresh rowid.
InsertOrReplaceFile(c, entry) ==
    LET row      == FileRow(NextRowid(c), entry)
        conflict == {r \in c.files : r.path = row.path}
    IN  StmtOk([c EXCEPT !.files = (c.files \ conflict) \cup {row},
                         !.file_tags = CascadeFileDelete(c, {r.path : r \in conflict})])

\* INSERT INTO files_fts ... ON CONFLICT(rowid) DO UPDATE (lines 122-133).
\* SQLite refuses an upsert clause on a virtual table when it prepares the
\* statement ("UPSERT not implemented for virtual table"), and when the fts5
\* module is missing the table was never created (lines 86-96 only log
\* that).  Either way execute() returns Err and writes nothing.
UpsertFilesFts(c, entry) == StmtErr(c)

\* Faulty variant: a plain INSERT into a table without the primary key on name.
InsertTagAlways(c, tag_name) ==
    StmtOk([c EXCEPT !.tags = AddRow(c.tags, [name |-> tag_name, color |-> None])])

\* INSERT OR IGNORE INTO tags (name) (lines 141-144).
InsertOrIgnoreTag(c, tag_name) ==
    IF \E r \in DOMAIN c.tags : r.name = tag_name
    THEN StmtOk(c)
    ELSE StmtOk([c EXCEPT !.tags = AddRow(c.tags, [name |-> tag_name, color |-> None])])

\* Faulty variant: a plain INSERT into a table without the primary key on the pair.
InsertFileTagAlways(c, file_path, tag_name) ==
    StmtOk([c EXCEPT !.file_tags =
               AddRow(c.file_tags, [file_path |-> normalize_path(file_path),
                                    tag_name |-> tag_name])])

\* INSERT OR IGNORE INTO file_tags (lines 146-149).  OR IGNORE covers the
\* primary key only: a missing parent row fails the statement when foreign
\* keys are enforced.
InsertOrIgnoreFileTag(c, file_path, tag_name) ==
    LET link == [file_path |-> normalize_path(file_path), tag_name |-> tag_name]
    IN  IF link \in DOMAIN c.file_tags
        THEN StmtOk(c)
        ELSE IF /\ c.foreign_keys
                /\ \/ ~ \E r \in c.files : r.path = link.file_path
                   \/ ~ \E r \in DOMAIN c.tags : r.name = link.tag_name
        THEN StmtErr(c)
        ELSE StmtOk([c EXCEPT !.file_tags = AddRow(c.file_tags, link)])

(***************************************************************************)
(* Queries.  A query operator gives the SET of results the statement may   *)
(* return: SQLite leaves the order of rows that tie under ORDER BY open.   *)
(***************************************************************************)
Ok(v) == [ok |-> TRUE, val |-> v]
Err == [ok |-> FALSE, val |-> << >>]

\* The sequences that list every element of S once with no pair out of
\* order; before is the set of pairs <<a, b>> with a sorting before b.
Orderings(S, before) ==
    {s \in [1 .. Cardinality(S) -> S] :
        /\ \A i, j \in 1 .. Cardinality(S) : i # j => s[i] # s[j]
        /\ \A i, j \in 1 .. Cardinality(S) : i < j => <<s[j], s[i]>> \notin before}

\* The row mapper of get_files_by_tag, get_files_in_directory, search and
\* search_in_directory.
RowToEntry(r) ==
    FileEntry(r.path, r.name, SqlToFileType(r.file_type), r.size, r.modified,
              r.parent)

\* ORDER BY name / ORDER BY f.name
ByName(a, b) == TextLess(a.name, b.name)

\* ORDER BY file_type DESC, name: the TEXT column file_type, descending.
ByFileTypeDescName(a, b) ==
    \/ TextLess(b.file_type, a.file_type)
    \/ a.file_type = b.file_type /\ TextLess(a.name, b.name)

\* tags t LEFT JOIN file_tags ft ON t.name = ft.tag_name (lines 157-159): a
\* tag row without a link is kept once, with a NULL ft.
LeftJoinTags(c) ==
    LET matched   == {[t |-> t, ft |-> Some(l)] :
                         <<t, l>> \in {x \in (DOMAIN c.tags) \X (DOMAIN c.file_tags) :
                                          x[1].name = x[2].tag_name}}
        unmatched == {[t |-> t, ft |-> None] :
                         t \in {x \in DOMAIN c.tags :
                                   ~ \E l \in DOMAIN c.file_tags : l.tag_name = x.name}}
    IN  [j \in matched \cup unmatched |->
            IF IsSome(j.ft) THEN c.tags[j.t] * c.file_tags[Unwrap(j.ft)]
            ELSE c.tags[j.t]]

\* Faulty variant: COUNT(*), which also counts the NULL row of a tag without links.
CountStar(joined, group) ==
    BagCardinality([j \in {x \in DOMAIN joined : x.t = group} |-> joined[j]])

\* COUNT(ft.file_path) over one group of the join: the rows whose
\* ft.file_path is not NULL.
CountFilePath(joined, group) ==
    BagCardinality([j \in {x \in DOMAIN joined : x.t = group /\ IsSome(x.ft)}
                       |-> joined[j]])

\* Faulty variant: the join without GROUP BY, one row per joined row.
get_all_tags_ungrouped(c) ==
    LET joined == LeftJoinTags(c)
        rows   == {[j |-> j, copy |-> k] :
                      <<j, k>> \in {x \in (DOMAIN joined) \X
                                           (1 .. BagCardinality(joined)) :
                                       x[2] <= joined[x[1]]}}
    IN  {Ok([i \in 1 .. Len(s) |->
                [name |-> s[i].j.t.name, color |-> s[i].j.t.color,
                 file_count |-> CountFilePath(joined, s[i].j.t)]]) :
            s \in Orderings(rows, {x \in rows \X rows : ByName(x[1].j.t, x[2].j.t)})}

\* get_all_tags (lines 154-174): GROUP BY t.name, t.color ORDER BY t.name.
get_all_tags(c) ==
    LET joined == LeftJoinTags(c)
        groups == {j.t : j \in DOMAIN joined}
    IN  {Ok([i \in 1 .. Len(s) |->
                [name |-> s[i].name, color |-> s[i].color,
                 file_count |-> CountFilePath(joined, s[i])]]) :
            s \in Orderings(groups, {x \in groups \X groups : ByName(x[1], x[2])})}

\* Faulty variant: the join without WHERE ft.tag_name = ?1.
get_files_by_tag_any_tag(c, tag_name) ==
    LET joined == {[f |-> f, copy |-> k] :
                      <<f, k>> \in {x \in c.files \X (1 .. BagCardinality(c.file_tags)) :
                          \E l \in DOMAIN c.file_tags :
                              /\ l.file_path = x[1].path
                              /\ x[2] <= c.file_tags[l]}}
    IN  {Ok([i \in 1 .. Len(s) |-> RowToEntry(s[i].f)]) :
            s \in Orderings(joined, {x \in joined \X joined : ByName(x[1].f, x[2].f)})}

\* get_files_by_tag (lines 176-203): files INNER JOIN file_tags, one joined
\* row per copy of a link, ORDER BY f.name.
get_files_by_tag(c, tag_name) ==
    LET joined == {[f |-> f, copy |-> k] :
                      <<f, k>> \in {x \in c.files \X (1 .. BagCardinality(c.file_tags)) :
                          \E l \in DOMAIN c.file_tags :
                              /\ l.file_path = x[1].path
                              /\ l.tag_name = tag_name
                              /\ x[2] <= c.file_tags[l]}}
    IN  {Ok([i \in 1 .. Len(s) |-> RowToEntry(s[i].f)]) :
            s \in Orderings(joined, {x \in joined \X joined : ByName(x[1].f, x[2].f)})}

\* Faulty variant: the children are joined to the row of their directory,
\* so that a directory without a record lists nothing.
get_files_in_directory_of_a_record(c, dir_path) ==
    LET rows == {r \in c.files : /\ r.parent = Some(normalize_path(dir_path))
                                 /\ \E q \in c.files : Some(q.path) = r.parent}
    IN  {Ok([i \in 1 .. Len(s) |-> RowToEntry(s[i])]) :
            s \in Orderings(rows, {x \in rows \X rows :
                                      ByFileTypeDescName(x[1], x[2])})}

\* get_files_in_directory (lines 205-231): WHERE parent = ?1 (a NULL parent
\* equals nothing) ORDER BY file_type DESC, name.
get_files_in_directory(c, dir_path) ==
    LET rows == {r \in c.files : r.parent = Some(normalize_path(dir_path))}
    IN  {Ok([i \in 1 .. Len(s) |-> RowToEntry(s[i])]) :
            s \in Orderings(rows, {x \in rows \X rows :
                                      ByFileTypeDescName(x[1], x[2])})}

\* Faulty variant: WHERE path = ?1, without the test of file_type.
get_directory_any_kind(c, dir_path) ==
    LET rows == {r \in c.files : r.path = normalize_path(dir_path)}
    IN  IF rows = {} THEN {Ok(None)}
        ELSE {Ok(Some(FileEntry(r.path, r.name, Directory, r.size, r.modified,
                                r.parent))) : r \in rows}

\* get_directory (lines 233-257): the first row WHERE path = ?1 AND
\* file_type = 'directory', or None.
get_directory(c, dir_path) ==
    LET rows == {r \in c.files : /\ r.path = normalize_path(dir_path)
                                 /\ r.file_type = SqlDirectory}
    IN  IF rows = {} THEN {Ok(None)}
        ELSE {Ok(Some(FileEntry(r.path, r.name, Directory, r.size, r.modified,
                                r.parent))) : r \in rows}

(***************************************************************************)
(* SearchEngine (search.rs).                                               *)
(***************************************************************************)
SearchLimit == 1000

Take(s, n) == SubSeq(s, 1, IF Len(s) < n THEN Len(s) ELSE n)

\* SQLite's LIKE: '%' matches any run of characters, '_' any one character,
\* every other character itself, ASCII letters without regard to case.
RECURSIVE Like(_, _)
Like(text, pattern) ==
    IF pattern = << >> THEN text = << >>
    ELSE IF Head(pattern) = "%"
         THEN \/ Like(text, Tail(pattern))
              \/ text # << >> /\ Like(Tail(text), pattern)
    ELSE IF text = << >> THEN FALSE
    ELSE IF Head(pattern) = "_" THEN Like(Tail(text), Tail(pattern))
    ELSE /\ LowerChar(Head(text)) = LowerChar(Head(pattern))
         /\ Like(Tail(text), Tail(pattern))

\* format!("%{}%", query)
SearchPattern(query) == << "%" >> \o query \o << "%" >>

\* LOWER(name) LIKE LOWER(?) OR LOWER(path) LIKE LOWER(?)
RowMatches(r, query) ==
    \/ Like(Lower(r.name), Lower(SearchPattern(query)))
    \/ Like(Lower(r.path), Lower(SearchPattern(query)))

\* str::contains
Contains(text, sub) ==
    \E i \in 1 .. (Len(text) - Len(sub) + 1) :
        SubSeq(text, i, i + Len(sub) - 1) = sub

\* Faulty variant: the statement of search without its LIMIT clause.
search_rows_unlimited(c, query, limit) ==
    LET rows == {r \in c.files : RowMatches(r, query)}
        cols == {RowToEntry(r) : r \in rows}
    IN  {Ok(s) : s \in Orderings(cols, {x \in cols \X cols : ByName(x[1], x[2])})}

\* The statement of search (lines 24-30) with the number of its LIMIT
\* clause as a parameter: SELECT DISTINCT ... WHERE ... ORDER BY name
\* LIMIT limit.
search_rows(c, query, limit) ==
    LET rows == {r \in c.files : RowMatches(r, query)}
        cols == {RowToEntry(r) : r \in rows}
    IN  {Ok(Take(s, limit)) :
            s \in Orderings(cols, {x \in cols \X cols : ByName(x[1], x[2])})}

\* The store query of search (lines 21-46): LIMIT 1000.
search_query(c, query) == search_rows(c, query, SearchLimit)

\* The store query of search_in_directory (lines 56-81).
search_in_directory_query(c, dir_path, query) ==
    LET rows == {r \in c.files : /\ r.parent = Some(normalize_path(dir_path))
                                 /\ RowMatches(r, query)}
    IN  {Ok(Take([i \in 1 .. Len(s) |-> RowToEntry(s[i])], SearchLimit)) :
            s \in Orderings(rows, {x \in rows \X rows :
                                      ByFileTypeDescName(x[1], x[2])})}

\* Faulty variant: the closure looks at the name and not at the path.
RetainKeepsName(f, query) ==
    Contains(to_lowercase(f.name), to_lowercase(query))

\* The closure of files.retain in search_by_tag (lines 91-94), with
\* query_lower = query.to_lowercase() of line 90.
RetainKeeps(f, query) ==
    \/ Contains(to_lowercase(f.name), to_lowercase(query))
    \/ Contains(to_lowercase(f.path), to_lowercase(query))

\* files.retain(...) of search_by_tag (lines 89-95).
Retain(files, query) ==
    LET keep(f) == RetainKeeps(f, query)
    IN  SelectSeq(files, keep)

(***************************************************************************)
(* The arguments the callers pass.                                         *)
(***************************************************************************)
Root == << "/" >>
PathA == << "/", "a" >>
PathASlash == << "/", "a", "/" >>
PathASlashSlash == << "/", "a", "/", "/" >>

PathArgs == {PathA, PathASlash, PathASlashSlash}

TagRed == << "r", "e", "d" >>
TagWork == << "w", "o", "r", "k" >>
TagArgs == {TagRed, TagWork}

QueryArgs == {<< >>, << "b" >>, << "_" >>}

\* Two observations of each path that differ in every field.
EntryArgs ==
    {FileEntry(p, << "a" >>, File, 1, 1, Some(Root)) : p \in PathArgs}
    \cup {FileEntry(p, << "B" >>, Directory, 0, 2, Some(PathASlash)) : p \in PathArgs}

NoArg == [op |-> "none"]

\* A small tree to browse: "/a" and "/B" seen as a directory or as a file,
\* both children of "/", and "/a/É", a file inside "/a".
PathB == << "/", "B" >>
PathAE == << "/", "a", "/", "É" >>

TreeEntries ==
    {FileEntry(PathA, << "a" >>, Directory, 0, 1, Some(Root)),
     FileEntry(PathA, << "a" >>, File, 1, 1, Some(Root)),
     FileEntry(PathB, << "B" >>, Directory, 0, 1, Some(Root)),
     FileEntry(PathB, << "B" >>, File, 1, 1, Some(Root)),
     FileEntry(PathAE, << "É" >>, File, 1, 1, Some(PathA))}

TreeTagged == {PathA, PathB}
TreeDirs == {Root, PathASlash}
TreeQueries ==
    {<< >>, << "b" >>, << "A" >>, << "é" >>, << "/" >>, << "_" >>, << "%" >>}

(***************************************************************************)
(* The Mutex around the connection.                                        *)
(***************************************************************************)
\* Faulty variant: the connection is used without waiting for the mutex.
AcquireWithoutWaiting(t) == lock' = t

\* self.conn.lock().unwrap(): blocks until no thread holds the mutex.
Acquire(t) == lock = NoThread /\ lock' = t

\* The MutexGuard goes out of scope.
Release(t) == lock' = IF lock = t THEN NoThread ELSE lock

\* Thread t enters a method, takes the lock and is about to run statement at.
Enter(t, a, at) ==
    /\ pc[t] = "idle"
    /\ Acquire(t)
    /\ pc' = [pc EXCEPT ![t] = at]
    /\ arg' = [arg EXCEPT ![t] = a]
    /\ snap' = [snap EXCEPT ![t] = Some(Tables(conn))]
    /\ UNCHANGED <<conn, ret, disk, crawl, app>>

\* Thread t runs the statement at pc `at` and goes on to `next` (ret r).
Step(t, at, next, c, r) ==
    /\ pc[t] = at
    /\ conn' = c
    /\ pc' = [pc EXCEPT ![t] = next]
    /\ ret' = [ret EXCEPT ![t] = r]
    /\ UNCHANGED <<lock, arg, snap, attached, writes, disk, crawl, app>>

(***************************************************************************)
(* TagDatabase::insert_file (tag_db.rs 103-136).                           *)
(***************************************************************************)
InsertFileCall(t) ==
    \E entry \in EntryArgs :
        /\ writes < MaxWrites
        /\ Enter(t, [op |-> "insert_file", entry |-> entry], "insert_file_files")
        /\ writes' = writes + 1
        /\ UNCHANGED attached

InsertFileFiles(t) ==
    /\ pc[t] = "insert_file_files"
    /\ LET r == InsertOrReplaceFile(conn, arg[t].entry)
       IN  IF r.ok
           THEN Step(t, "insert_file_files", "insert_file_fts", r.conn, None)
           ELSE Step(t, "insert_file_files", "return", r.conn, Some(Err))

InsertFileFts(t) ==
    /\ pc[t] = "insert_file_fts"
    /\ LET r == UpsertFilesFts(conn, arg[t].entry)
       IN  Step(t, "insert_file_fts", "return", r.conn,
                IF r.ok THEN Some(Ok(<< >>)) ELSE Some(Err))

(***************************************************************************)
(* TagDatabase::add_tag_to_file (tag_db.rs 138-152).                       *)
(***************************************************************************)
AddTagCall(t) ==
    \E file_path \in PathArgs, tag_name \in TagArgs :
        /\ writes < MaxWrites
        /\ Enter(t, [op |-> "add_tag_to_file", file_path |-> file_path,
                     tag_name |-> tag_name], "add_tag_tags")
        /\ writes' = writes + 1
        /\ attached' = attached \cup {tag_name}

AddTagTags(t) ==
    /\ pc[t] = "add_tag_tags"
    /\ LET r == InsertOrIgnoreTag(conn, arg[t].tag_name)
       IN  IF r.ok
           THEN Step(t, "add_tag_tags", "add_tag_file_tags", r.conn, None)
           ELSE Step(t, "add_tag_tags", "return", r.conn, Some(Err))

AddTagFileTags(t) ==
    /\ pc[t] = "add_tag_file_tags"
    /\ LET r == InsertOrIgnoreFileTag(conn, arg[t].file_path, arg[t].tag_name)
       IN  Step(t, "add_tag_file_tags", "return", r.conn,
                IF r.ok THEN Some(Ok(<< >>)) ELSE Some(Err))

(***************************************************************************)
(* The read methods of TagDatabase.                                        *)
(***************************************************************************)
GetAllTags(t) ==
    \/ Enter(t, [op |-> "get_all_tags"], "get_all_tags_query") /\ UNCHANGED <<attached, writes>>
    \/ /\ pc[t] = "get_all_tags_query"
       /\ \E r \in get_all_tags(conn) :
              Step(t, "get_all_tags_query", "return", conn, Some(r))

GetFilesByTag(t) ==
    \/ \E tag_name \in TagArgs :
           /\ Enter(t, [op |-> "get_files_by_tag", tag_name |-> tag_name],
                    "get_files_by_tag_query")
           /\ UNCHANGED <<attached, writes>>
    \/ /\ pc[t] = "get_files_by_tag_query"
       /\ arg[t].op = "get_files_by_tag"
       /\ \E r \in get_files_by_tag(conn, arg[t].tag_name) :
              Step(t, "get_files_by_tag_query", "return", conn, Some(r))

GetFilesInDirectory(t) ==
    \/ \E dir_path \in PathArgs \cup {Root} :
           /\ Enter(t, [op |-> "get_files_in_directory", dir_path |-> dir_path],
                    "get_files_in_directory_query")
           /\ UNCHANGED <<attached, writes>>
    \/ /\ pc[t] = "get_files_in_directory_query"
       /\ \E r \in get_files_in_directory(conn, arg[t].dir_path) :
              Step(t, "get_files_in_directory_query", "return", conn, Some(r))

GetDirectory(t) ==
    \/ \E dir_path \in PathArgs \cup {Root} :
           /\ Enter(t, [op |-> "get_directory", dir_path |-> dir_path],
                    "get_directory_query")
           /\ UNCHANGED <<attached, writes>>
    \/ /\ pc[t] = "get_directory_query"
       /\ \E r \in get_directory(conn, arg[t].dir_path) :
              Step(t, "get_directory_query", "return", conn, Some(r))

(***************************************************************************)
(* SearchEngine::search and search_in_directory.                           *)
(***************************************************************************)
\* Faulty variant: the empty query is sent to the store like any other.
SearchCallThroughStore(t, query) ==
    /\ Enter(t, [op |-> "search", query |-> query], "search_query")
    /\ UNCHANGED <<attached, writes>>

\* The head of search (lines 16-21): an empty query returns Ok(vec![])
\* before the lock is taken, any other query takes the lock.
SearchCall(t, query) ==
    IF query = << >>
    THEN /\ pc[t] = "idle"
         /\ pc' = [pc EXCEPT ![t] = "return"]
         /\ arg' = [arg EXCEPT ![t] = [op |-> "search", query |-> query]]
         /\ ret' = [ret EXCEPT ![t] = Some(Ok(<< >>))]
         /\ UNCHANGED <<conn, lock, snap, attached, writes, disk, crawl, app>>
    ELSE /\ Enter(t, [op |-> "search", query |-> query], "search_query")
         /\ UNCHANGED <<attached, writes>>

\* The statement of search and its row mapper (lines 22-48).
SearchQuery(t) ==
    /\ pc[t] = "search_query"
    /\ \E r \in search_query(conn, arg[t].query) :
           Step(t, "search_query", "return", conn, Some(r))

Search(t) ==
    \/ \E query \in QueryArgs : SearchCall(t, query)
    \/ SearchQuery(t)

\* Faulty variant: the empty query answered as search answers it.
search_in_directory_nothing(c, dir_path) == {Ok(<< >>)}

\* The empty query of search_in_directory (lines 52-54):
\* return self.tag_db.get_files_in_directory(dir_path).
search_in_directory_delegate(c, dir_path) == get_files_in_directory(c, dir_path)

\* The head of search_in_directory (lines 51-56).  With an empty query the
\* lock is the one get_files_in_directory takes.
SearchInDirectoryCall(t, dir_path, query) ==
    /\ Enter(t, [op |-> "search_in_directory", dir_path |-> dir_path,
                 query |-> query],
             IF query = << >> THEN "search_in_directory_delegate"
             ELSE "search_in_directory_query")
    /\ UNCHANGED <<attached, writes>>

SearchInDirectoryDelegate(t) ==
    /\ pc[t] = "search_in_directory_delegate"
    /\ \E r \in search_in_directory_delegate(conn, arg[t].dir_path) :
           Step(t, "search_in_directory_delegate", "return", conn, Some(r))

\* The statement of search_in_directory and its row mapper (lines 57-83).
SearchInDirectoryQuery(t) ==
    /\ pc[t] = "search_in_directory_query"
    /\ \E r \in search_in_directory_query(conn, arg[t].dir_path, arg[t].query) :
           Step(t, "search_in_directory_query", "return", conn, Some(r))

SearchInDirectory(t) ==
    \/ \E dir_path \in PathArgs \cup {Root}, query \in QueryArgs :
           SearchInDirectoryCall(t, dir_path, query)
    \/ SearchInDirectoryDelegate(t)
    \/ SearchInDirectoryQuery(t)

\* The method returns to its caller; a guard still held is dropped.
Return(t) ==
    /\ pc[t] = "return"
    /\ Release(t)
    /\ pc' = [pc EXCEPT ![t] = "idle"]
    /\ arg' = [arg EXCEPT ![t] = NoArg]
    /\ ret' = [ret EXCEPT ![t] = None]
    /\ snap' = [snap EXCEPT ![t] = None]
    /\ UNCHANGED <<conn, attached, writes, disk, crawl, app>>

(***************************************************************************)
(* Browsing: one thread indexes the small tree, tags it and queries it.    *)
(***************************************************************************)
BrowseIndex(t) ==
    \E entry \in TreeEntries :
        /\ writes < MaxIndexed
        /\ Enter(t, [op |-> "insert_file", entry |-> entry], "insert_file_files")
        /\ writes' = writes + 1
        /\ UNCHANGED attached

BrowseTag(t) ==
    \E file_path \in TreeTagged :
        /\ Enter(t, [op |-> "add_tag_to_file", file_path |-> file_path,
                     tag_name |-> TagWork], "add_tag_tags")
        /\ attached' = attached \cup {TagWork}
        /\ UNCHANGED writes

BrowseSearch(t) ==
    \/ \E query \in TreeQueries : SearchCall(t, query)
    \/ SearchQuery(t)

BrowseSearchInDirectory(t) ==
    \/ \E dir_path \in TreeDirs, query \in TreeQueries :
           SearchInDirectoryCall(t, dir_path, query)
    \/ SearchInDirectoryDelegate(t)
    \/ SearchInDirectoryQuery(t)

(***************************************************************************)
(* SearchEngine::search_by_tag (search.rs 86-98).                          *)
(***************************************************************************)
SearchByTagCall(t, tag_name, query) ==
    /\ Enter(t, [op |-> "search_by_tag", tag_name |-> tag_name, query |-> query],
             "search_by_tag_get_files")
    /\ UNCHANGED <<attached, writes>>

\* let mut files = self.tag_db.get_files_by_tag(tag_name)? (line 87): the
\* lock is the one get_files_by_tag takes, and it is dropped when
\* get_files_by_tag returns; an Err leaves search_by_tag at once.
SearchByTagGetFiles(t) ==
    /\ pc[t] = "search_by_tag_get_files"
    /\ \E r \in get_files_by_tag(conn, arg[t].tag_name) :
           /\ pc' = [pc EXCEPT ![t] = IF r.ok THEN "search_by_tag_retain"
                                      ELSE "return"]
           /\ ret' = [ret EXCEPT ![t] = Some(r)]
    /\ Release(t)
    /\ UNCHANGED <<conn, arg, snap, attached, writes, disk, crawl, app>>

\* Lines 89-97: with a non-empty query the list is filtered in memory, with
\* an empty one it is returned as it came.
SearchByTagRetain(t) ==
    /\ pc[t] = "search_by_tag_retain"
    /\ pc' = [pc EXCEPT ![t] = "return"]
    /\ ret' = [ret EXCEPT ![t] =
                  Some(Ok(IF arg[t].query # << >>
                          THEN Retain(Unwrap(ret[t]).val, arg[t].query)
                          ELSE Unwrap(ret[t]).val))]
    /\ UNCHANGED <<conn, lock, arg, snap, attached, writes, disk, crawl, app>>

BrowseSearchByTag(t) ==
    \/ \E tag_name \in TagArgs, query \in TreeQueries :
           SearchByTagCall(t, tag_name, query)
    \/ SearchByTagGetFiles(t)
    \/ SearchByTagRetain(t)

(***************************************************************************)
(* Paths (std::path::Path).  The crawler is given absolute paths without   *)
(* a trailing separator, and so are the paths it builds from them.         *)
(***************************************************************************)
LastSlash(path) ==
    CHOOSE i \in 1 .. Len(path) :
        path[i] = "/" /\ \A j \in (i + 1) .. Len(path) : path[j] # "/"

\* Path::parent: the path without its last component, None for "/".
path_parent(path) ==
    IF path = Root THEN None
    ELSE IF LastSlash(path) = 1 THEN Some(Root)
    ELSE Some(SubSeq(path, 1, LastSlash(path) - 1))

\* Path::file_name: the last component, None for "/".
file_name(path) ==
    IF path = Root THEN None
    ELSE Some(SubSeq(path, LastSlash(path) + 1, Len(path)))

\* Path::join with a single component.
Join(dir, name) == IF dir = Root THEN dir \o name ELSE dir \o << "/" >> \o name

(***************************************************************************)
(* The filesystem.  The tree is "/a" with the file "/a/b" and the          *)
(* directory "/a/d", which holds "/a/d/b", a symbolic link to "/a".  What  *)
(* a run may meet on it is drawn when the run begins: a child whose        *)
(* directory entry cannot be read, a directory that cannot be opened, a    *)
(* modification time that cannot be read or lies before the epoch, and     *)
(* the length the platform reports for a directory.  "/a/b" may be         *)
(* removed by another process at any moment.                               *)
(***************************************************************************)
DiskFile == << "/", "a", "/", "b" >>
DiskSub == << "/", "a", "/", "d" >>
DiskLink == << "/", "a", "/", "d", "/", "b" >>

DiskPaths == {Root, PathA, DiskFile, DiskSub, DiskLink}

DiskKind(p) ==
    CASE p = DiskFile -> "file"
      [] p = DiskLink -> "symlink"
      [] OTHER -> "dir"

\* The target of the symbolic link.
DiskTarget(p) == PathA

Faults == {"none", "unlisted", "denied", "no_mtime", "old_mtime"}

\* st_size of a directory: 0 on some filesystems, a block or more on others.
DirLens == {0, 4096}

DiskInit ==
    {[present |-> DiskPaths, fault |-> f, dir_len |-> n] :
        f \in Faults, n \in DirLens}

\* The path with every symbolic link in it followed, None when nothing is
\* there.
RECURSIVE Resolve(_, _)
Resolve(d, path) ==
    IF path \in DiskPaths
    THEN IF path \notin d.present THEN None
         ELSE IF DiskKind(path) = "symlink" THEN Resolve(d, DiskTarget(path))
         ELSE Some(path)
    ELSE LET dir == Resolve(d, Unwrap(path_parent(path)))
         IN  IF IsSome(dir) /\ Join(Unwrap(dir), Unwrap(file_name(path))) \in DiskPaths
             THEN Resolve(d, Join(Unwrap(dir), Unwrap(file_name(path))))
             ELSE None

\* The path with the links of its directories followed, but not the link
\* the path itself may be.
ResolveParent(d, path) ==
    IF path \in DiskPaths THEN Some(path)
    ELSE LET dir == Resolve(d, Unwrap(path_parent(path)))
         IN  IF IsSome(dir) /\ Join(Unwrap(dir), Unwrap(file_name(path))) \in DiskPaths
             THEN Some(Join(Unwrap(dir), Unwrap(file_name(path))))
             ELSE None

\* metadata.modified() and duration_since(UNIX_EPOCH) for "/a/b": the two
\* can fail, every other time is readable.
Mtime(d, path) ==
    IF path = DiskFile /\ d.fault = "no_mtime" THEN [ok |-> FALSE, secs |-> 0]
    ELSE IF path = DiskFile /\ d.fault = "old_mtime" THEN [ok |-> TRUE, secs |-> -1]
    ELSE [ok |-> TRUE, secs |-> 5]

\* std::fs::metadata(path): follows symbolic links.
metadata(d, path) ==
    LET real == Resolve(d, path)
    IN  IF real = None THEN Err
        ELSE Ok([is_dir   |-> DiskKind(Unwrap(real)) = "dir",
                 len      |-> IF DiskKind(Unwrap(real)) = "dir" THEN d.dir_len ELSE 1,
                 modified |-> Mtime(d, Unwrap(real))])

\* std::fs::read_dir(dir): the children of the directory, as paths joined
\* to dir; Err when dir is missing, is no directory or cannot be opened.
read_dir(d, dir) ==
    LET real == Resolve(d, dir)
    IN  IF \/ real = None
           \/ DiskKind(Unwrap(real)) # "dir"
           \/ (d.fault = "denied" /\ Unwrap(real) = DiskSub)
           \/ (d.fault = "no_root" /\ Unwrap(real) = Root)
        THEN Err
        ELSE Ok({Join(dir, Unwrap(file_name(p))) :
                    p \in {q \in d.present \ {Root} :
                              path_parent(q) = Some(Unwrap(real))}})

\* The iterator item of a child is Err and not a DirEntry.
Unlisted(d, path) == d.fault = "unlisted" /\ path = DiskFile

\* The value of com.apple.metadata:_kMDItemUserTags: "/a/b" carries one
\* tag, "/a/d" a value that is no property list, the others no attribute.
\* get_macos_tags (indexer.rs 113-136) gives the tags of a well-formed
\* value and Ok(vec![]) for anything else.
get_macos_tags(d, path) ==
    IF Resolve(d, path) = Some(DiskFile) THEN << TagRed >> ELSE << >>

(***************************************************************************)
(* The crawler (indexer.rs).  crawl[t] is the walk thread t is in:         *)
(*   job        "shallow", "depth", "index_file" or "none"                 *)
(*   running    the job has not returned yet                               *)
(*   stack      the directory iterators that are open, each the set of     *)
(*              children it has not given yet (the order of a directory    *)
(*              is the filesystem's)                                       *)
(*   descend    the directory WalkDir gave last and has still to open      *)
(*   path       the argument of the index_file call in progress            *)
(*   tags       the tags index_file has still to attach                    *)
(*   listed     the children read_dir found for the shallow crawl          *)
(*   called     the paths index_file was called with in this job           *)
(*   failed     those of them for which index_file returned Err            *)
(*   result     what the job returned                                      *)
(*   jobs       the jobs thread t has started                              *)
(***************************************************************************)
NoCrawl ==
    [job |-> "none", running |-> FALSE, root |-> Root, max_depth |-> 0,
     stack |-> << >>, descend |-> None, path |-> None, tags |-> << >>,
     listed |-> {}, called |-> {}, failed |-> {}, result |-> None, jobs |-> 0]

NewCrawl(job, root, max_depth, jobs) ==
    [NoCrawl EXCEPT !.job = job, !.running = TRUE, !.root = root,
                    !.max_depth = max_depth, !.jobs = jobs]

\* The crawler threads, the directories they are sent to and the depths.
Crawlers == {1}
StartupDepth == 3
ShallowDirs == {PathA, DiskSub}
DepthArgs == {1, StartupDepth}
ListQueries == {<< "b" >>}

\* Faulty variant: the first entry that fails ends the loop.
StopAtEntryError(cr) == [cr EXCEPT !.stack = << >>, !.descend = None]

\* The Err arms of the two loops (lines 27-33 and 50-56): eprintln! and
\* on to the next entry.
on_entry_error(cr) == cr

\* The job returns r.
Finished(cr, r) == [cr EXCEPT !.running = FALSE, !.result = Some(r),
                              !.stack = << >>, !.descend = None, !.path = None]

\* index_file returns Err to its caller: the loops log it and go on, the
\* startup thread logs it (app.rs 524-526).
IndexFileErr(cr) ==
    LET c1 == [cr EXCEPT !.failed = @ \cup {Unwrap(cr.path)}, !.path = None,
                         !.tags = << >>]
    IN  IF cr.job = "index_file" THEN Finished(c1, Err) ELSE on_entry_error(c1)

\* index_file returns Ok(()) (line 110).
IndexFileOk(cr) ==
    LET c1 == [cr EXCEPT !.path = None, !.tags = << >>]
    IN  IF cr.job = "index_file" THEN Finished(c1, Ok(<< >>)) ELSE c1

\* Where the thread goes on after index_file has returned.
ResumeAt(cr) ==
    IF ~ cr.running THEN "idle"
    ELSE IF cr.job = "shallow" THEN "next_entry" ELSE "walk_next"

\* The FileEntry index_file builds from the metadata (lines 63-99).
BuildEntry(path, m) ==
    FileEntry(path,
              IF IsSome(file_name(path)) THEN Unwrap(file_name(path)) ELSE << >>,
              IF m.is_dir THEN Directory ELSE File,
              m.len,
              IF m.modified.ok /\ m.modified.secs >= 0 THEN m.modified.secs ELSE 0,
              path_parent(path))

\* Thread t, inside a job, takes the lock for a call on the store.
EnterFrom(t, from, a, at) ==
    /\ pc[t] = from
    /\ Acquire(t)
    /\ pc' = [pc EXCEPT ![t] = at]
    /\ arg' = [arg EXCEPT ![t] = a]
    /\ snap' = [snap EXCEPT ![t] = Some(Tables(conn))]
    /\ UNCHANGED <<conn, ret, disk, app>>

\* A step of the crawler that touches neither the store nor the lock.
CrawlStep(t, at, next, cr) ==
    /\ pc[t] = at
    /\ pc' = [pc EXCEPT ![t] = next]
    /\ crawl' = [crawl EXCEPT ![t] = cr]
    /\ UNCHANGED <<conn, lock, arg, ret, snap, attached, writes, disk, app>>

\* FileIndexer::index_file called on its own (app.rs 524), as job number
\* jobs of its thread: where the thread is after the call and the walk it
\* is in.
index_file_start(path, jobs) ==
    [pc |-> "index_file_metadata",
     cr |-> [NewCrawl("index_file", path, 0, jobs)
                EXCEPT !.path = Some(path), !.called = {path}]]

IndexFileCall(t, path) ==
    /\ crawl[t].jobs < MaxCrawls
    /\ LET s == index_file_start(path, crawl[t].jobs + 1)
       IN  CrawlStep(t, "idle", s.pc, s.cr)

\* FileIndexer::index_directory_shallow (lines 18-36) up to its loop:
\* std::fs::read_dir(dir)? returns the Err of a directory it cannot open.
index_directory_shallow_start(d, dir, jobs) ==
    LET cr == NewCrawl("shallow", dir, 0, jobs)
        rd == read_dir(d, dir)
    IN  IF rd.ok
        THEN [pc |-> "next_entry",
              cr |-> [cr EXCEPT !.stack = << rd.val >>, !.listed = rd.val]]
        ELSE [pc |-> "idle", cr |-> Finished(cr, Err)]

IndexDirectoryShallowCall(t, dir) ==
    /\ crawl[t].jobs < MaxCrawls
    /\ LET s == index_directory_shallow_start(disk, dir, crawl[t].jobs + 1)
       IN  CrawlStep(t, "idle", s.pc, s.cr)

\* One turn of `for entry in entries` (lines 21-34); Ok(()) when the
\* iterator is exhausted (line 35).
ShallowNext(t) ==
    /\ pc[t] = "next_entry"
    /\ LET cr == crawl[t]
       IN  IF cr.stack = << >> \/ cr.stack[1] = {}
           THEN CrawlStep(t, "next_entry", "idle", Finished(cr, Ok(<< >>)))
           ELSE \E p \in cr.stack[1] :
                    LET rest == [cr EXCEPT !.stack = << cr.stack[1] \ {p} >>]
                    IN  IF Unlisted(disk, p)
                        THEN CrawlStep(t, "next_entry", "next_entry",
                                       on_entry_error(rest))
                        ELSE CrawlStep(t, "next_entry", "index_file_metadata",
                                       [rest EXCEPT !.path = Some(p),
                                                    !.called = @ \cup {p}])

\* Faulty variant: the walk follows symbolic links (follow_links(true)).
walk_follows_links(d, p) == metadata(d, p).ok /\ metadata(d, p).val.is_dir

\* WalkDir with follow_links(false): an entry is a directory to descend
\* into when it is one itself, not when it is a link to one.
walk_is_dir(d, p) ==
    /\ IsSome(ResolveParent(d, p))
    /\ DiskKind(Unwrap(ResolveParent(d, p))) = "dir"

\* The open iterators without the exhausted ones on top.
RECURSIVE Trim(_)
Trim(stack) ==
    IF stack # << >> /\ stack[Len(stack)] = {}
    THEN Trim(SubSeq(stack, 1, Len(stack) - 1))
    ELSE stack

\* FileIndexer::index_directory_with_depth (lines 38-59) up to its loop:
\* WalkDir::new(root).follow_links(false).max_depth(max_depth).
index_directory_with_depth_start(root, max_depth, jobs) ==
    [pc |-> "walk_next",
     cr |-> [NewCrawl("depth", root, max_depth, jobs) EXCEPT !.stack = << {root} >>]]

IndexDirectoryWithDepthCall(t, root, max_depth) ==
    /\ crawl[t].jobs < MaxCrawls
    /\ LET s == index_directory_with_depth_start(root, max_depth, crawl[t].jobs + 1)
       IN  CrawlStep(t, "idle", s.pc, s.cr)

\* One turn of `for entry in walker` (lines 44-57).  WalkDir gives a
\* directory before its contents and opens it when asked for the next
\* item: a directory it cannot open is an Err item and the walk goes on
\* with the siblings.  The depth of an entry is the number of iterators
\* open below the one that gives it.
WalkNext(t) ==
    /\ pc[t] = "walk_next"
    /\ LET cr     == crawl[t]
           opened == IF IsSome(cr.descend) THEN read_dir(disk, Unwrap(cr.descend))
                     ELSE Ok({})
           stack  == Trim(IF IsSome(cr.descend) THEN Append(cr.stack, opened.val)
                          ELSE cr.stack)
       IN  IF ~ opened.ok
           THEN CrawlStep(t, "walk_next", "walk_next",
                          on_entry_error([cr EXCEPT !.descend = None]))
           ELSE IF stack = << >>
           THEN CrawlStep(t, "walk_next", "idle", Finished(cr, Ok(<< >>)))
           ELSE \E p \in stack[Len(stack)] :
                    LET rest == [cr EXCEPT !.stack = [stack EXCEPT ![Len(stack)] = @ \ {p}],
                                           !.descend = None]
                    IN  IF Unlisted(disk, p)
                        THEN CrawlStep(t, "walk_next", "walk_next",
                                       on_entry_error(rest))
                        ELSE CrawlStep(t, "walk_next", "index_file_metadata",
                                       [rest EXCEPT
                                           !.path = Some(p),
                                           !.called = @ \cup {p},
                                           !.descend =
                                               IF /\ walk_is_dir(disk, p)
                                                  /\ Len(stack) - 1 < cr.max_depth
                                               THEN Some(p) ELSE None])

\* index_file, lines 62-101: std::fs::metadata(path)? returns its Err; with
\* the metadata the entry is built and insert_file is called.
IndexFileMetadata(t) ==
    /\ pc[t] = "index_file_metadata"
    /\ LET cr == crawl[t]
           m  == metadata(disk, Unwrap(cr.path))
       IN  IF m.ok
           THEN /\ EnterFrom(t, "index_file_metadata",
                             [op |-> "insert_file",
                              entry |-> BuildEntry(Unwrap(cr.path), m.val)],
                             "insert_file_files")
                /\ UNCHANGED <<crawl, attached, writes>>
           ELSE CrawlStep(t, "index_file_metadata", ResumeAt(IndexFileErr(cr)),
                          IndexFileErr(cr))

\* Faulty variant: the result of the call is dropped and index_file goes on.
goes_on_after_err(r) == FALSE

\* The `?` of insert_file(..)? (line 101) and add_tag_to_file(..)? (line
\* 105): an Err is returned to the caller of index_file at once.
returns_err(r) == ~ r.ok

\* A call on the store returns into index_file and its guard is dropped;
\* after an Ok of insert_file the tags are read (line 103).
IndexFileResume(t) ==
    /\ pc[t] = "return"
    /\ crawl[t].running
    /\ Release(t)
    /\ LET cr == crawl[t]
           after == IF returns_err(Unwrap(ret[t])) THEN IndexFileErr(cr)
                    ELSE IF arg[t].op = "insert_file"
                    THEN [cr EXCEPT !.tags = get_macos_tags(disk, Unwrap(cr.path))]
                    ELSE cr
       IN  /\ crawl' = [crawl EXCEPT ![t] = after]
           /\ pc' = [pc EXCEPT ![t] = IF returns_err(Unwrap(ret[t]))
                                      THEN ResumeAt(after)
                                      ELSE "index_file_tags"]
    /\ arg' = [arg EXCEPT ![t] = NoArg]
    /\ ret' = [ret EXCEPT ![t] = None]
    /\ snap' = [snap EXCEPT ![t] = None]
    /\ UNCHANGED <<conn, attached, writes, disk, app>>

\* index_file, lines 103-110: add_tag_to_file for each tag, then Ok(()).
\* No run gets here: insert_file returns Err every time (UpsertFilesFts).
IndexFileTags(t) ==
    /\ pc[t] = "index_file_tags"
    /\ LET cr == crawl[t]
       IN  IF cr.tags = << >>
           THEN CrawlStep(t, "index_file_tags", ResumeAt(IndexFileOk(cr)),
                          IndexFileOk(cr))
           ELSE /\ EnterFrom(t, "index_file_tags",
                             [op |-> "add_tag_to_file", file_path |-> Unwrap(cr.path),
                              tag_name |-> Head(cr.tags)], "add_tag_tags")
                /\ crawl' = [crawl EXCEPT ![t].tags = Tail(cr.tags)]
                /\ attached' = attached \cup {Head(cr.tags)}
                /\ UNCHANGED writes

\* Another process removes "/a/b".
Vanish ==
    /\ DiskFile \in disk.present
    /\ disk' = [disk EXCEPT !.present = @ \ {DiskFile}]
    /\ UNCHANGED <<conn, lock, pc, arg, ret, snap, attached, writes, crawl, app>>

\* The thread asks for the listing of a directory it may have crawled.
CrawlList(t) ==
    \/ \E dir_path \in ShallowDirs :
           /\ Enter(t, [op |-> "get_files_in_directory", dir_path |-> dir_path],
                    "get_files_in_directory_query")
           /\ UNCHANGED <<attached, writes>>
    \/ /\ pc[t] = "get_files_in_directory_query"
       /\ \E r \in get_files_in_directory(conn, arg[t].dir_path) :
              Step(t, "get_files_in_directory_query", "return", conn, Some(r))

CrawlSearchInDirectory(t) ==
    \/ \E dir_path \in ShallowDirs, query \in ListQueries :
           SearchInDirectoryCall(t, dir_path, query)
    \/ SearchInDirectoryQuery(t)

\* A query returns to the code that asked.
CrawlReturn(t) == ~ crawl[t].running /\ Return(t)

\* No filesystem is read and no application runs.
NoDisk == [present |-> {}, fault |-> "none", dir_len |-> 0]
NoApp == [threads |-> << >>]

CrawlInit ==
    /\ conn \in {EmptyConn(fk) : fk \in BOOLEAN}
    /\ lock = NoThread
    /\ pc = [t \in Crawlers |-> "idle"]
    /\ arg = [t \in Crawlers |-> NoArg]
    /\ ret = [t \in Crawlers |-> None]
    /\ snap = [t \in Crawlers |-> None]
    /\ attached = {}
    /\ writes = 0
    /\ disk \in DiskInit
    /\ crawl = [t \in Crawlers |-> NoCrawl]
    /\ app = NoApp

CrawlNext ==
    \/ \E t \in Crawlers :
           \/ IndexFileCall(t, Root)
           \/ \E dir \in ShallowDirs : IndexDirectoryShallowCall(t, dir)
           \/ \E max_depth \in DepthArgs : IndexDirectoryWithDepthCall(t, PathA, max_depth)
           \/ ShallowNext(t)
           \/ WalkNext(t)
           \/ IndexFileMetadata(t)
           \/ InsertFileFiles(t)
           \/ InsertFileFts(t)
           \/ IndexFileResume(t)
           \/ CrawlList(t)
           \/ CrawlSearchInDirectory(t)
           \/ CrawlReturn(t)
    \/ Vanish

CrawlSpec == CrawlInit /\ [][CrawlNext]_vars

(***************************************************************************)
(* The startup thread (app.rs 523-534): index_file on "/", the shallow     *)
(* crawl of "/", the crawl of the home directory to depth 3, and then      *)
(* is_indexing.store(false).  crawl[t].jobs counts the calls the closure   *)
(* has made; here app holds                                                *)
(*   is_indexing   the AtomicBool created true at line 516                 *)
(*   returned      for each call that has returned, whether it was Ok      *)
(***************************************************************************)
StartupPhases == 3

\* Faulty variant: the closure is left at the first Err, as `?` would do.
ExitAtPhaseError(cr) == [cr EXCEPT !.jobs = StartupPhases + 1]

\* The Err arms of lines 524-532: eprintln! and on to the next statement.
on_phase_error(cr) == cr

\* The statement of the closure that comes after the calls made so far.
StartupClosure(t) ==
    /\ pc[t] = "idle"
    /\ ~ crawl[t].running
    /\ app.is_indexing
    /\ LET cr == IF crawl[t].jobs > 0 /\ ~ Unwrap(crawl[t].result).ok
                 THEN on_phase_error(crawl[t]) ELSE crawl[t]
           k  == cr.jobs
           s  == CASE k = 0 -> index_file_start(Root, 1)
                   [] k = 1 -> index_directory_shallow_start(disk, Root, 2)
                   [] k = 2 -> index_directory_with_depth_start(PathA, StartupDepth, 3)
                   [] OTHER -> [pc |-> "idle", cr |-> cr]
       IN  /\ k <= StartupPhases
           /\ pc' = [pc EXCEPT ![t] = s.pc]
           /\ crawl' = [crawl EXCEPT ![t] = s.cr]
           /\ app' = [is_indexing |-> k < StartupPhases,
                      returned    |-> IF k = 0 THEN app.returned
                                      ELSE Append(app.returned,
                                                  Unwrap(crawl[t].result).ok)]
    /\ UNCHANGED <<conn, lock, arg, ret, snap, attached, writes, disk>>

\* The state FileManagerApp::new leaves: the store is empty and the thread
\* is spawned.  "/" may be a directory that cannot be opened.
StartupInit ==
    /\ conn \in {EmptyConn(fk) : fk \in BOOLEAN}
    /\ lock = NoThread
    /\ pc = [t \in Crawlers |-> "idle"]
    /\ arg = [t \in Crawlers |-> NoArg]
    /\ ret = [t \in Crawlers |-> None]
    /\ snap = [t \in Crawlers |-> None]
    /\ attached = {}
    /\ writes = 0
    /\ disk \in DiskInit \cup {[present |-> DiskPaths, fault |-> "no_root", dir_len |-> n] :
                                   n \in DirLens}
    /\ crawl = [t \in Crawlers |-> NoCrawl]
    /\ app = [is_indexing |-> TRUE, returned |-> << >>]

\* The steps of the startup thread.
StartupThread(t) ==
    \/ StartupClosure(t)
    \/ ShallowNext(t)
    \/ WalkNext(t)
    \/ IndexFileMetadata(t)
    \/ InsertFileFiles(t)
    \/ InsertFileFts(t)
    \/ IndexFileResume(t)

StartupNext ==
    \/ \E t \in Crawlers :
           \/ StartupClosure(t)
           \/ ShallowNext(t)
           \/ WalkNext(t)
           \/ IndexFileMetadata(t)
           \/ InsertFileFiles(t)
           \/ InsertFileFts(t)
           \/ IndexFileResume(t)
    \/ Vanish

StartupSpec == StartupInit /\ [][StartupNext]_vars

\* The thread is scheduled as long as it has a step to take.
StartupFairSpec == StartupSpec /\ \A t \in Crawlers : WF_vars(StartupThread(t))


(***************************************************************************)
(* The application (app.rs).  app holds the fields of FileManagerApp that  *)
(* decide when a crawl is started, and the threads started so far:         *)
(*   current_view, folder_current_path, last_indexed_path                  *)
(*   is_indexing   the AtomicBool the status bar reads (lines 492-496)      *)
(*   threads   one record per std::thread::spawn: what started it, the     *)
(*             directory it was given and whether its closure has          *)
(*             returned; threads[1] is the one whose JoinHandle is kept    *)
(*             in indexing_thread                                          *)
(*   dropped   Drop::drop has returned                                     *)
(*   frames    the calls of update so far                                  *)
(*   became    how often folder_current_path took each value               *)
(*   created   how often a file or directory was created in each          *)
(*             directory                                                   *)
(* What a walk does to the store is the matter of the crawler above; here  *)
(* a thread is running or has returned.                                    *)
(***************************************************************************)
Folders == "Folders"
Tags == "Tags"

\* The directories the interface can be in.
Dirs == {Root, PathA, DiskSub}

\* The name typed into the create dialog.
NewName == << "c" >>

\* The directory listed in dir that Enter or a click opens, if there is one.
ChildDir(dir) ==
    IF \E p \in Dirs : path_parent(p) = Some(dir)
    THEN Some(CHOOSE p \in Dirs : path_parent(p) = Some(dir))
    ELSE None

Thread(kind, dir) == [kind |-> kind, dir |-> dir, done |-> FALSE]

\* What one frame is given: the view chosen by key or tab, the directory
\* clicked in the tree, Enter on a selected directory, ArrowLeft or
\* Backspace, a click on a directory of the list, and the create dialog
\* (confirmed for a file or a directory, or refused by the filesystem).
FrameInputs ==
    [view   : {"none", Folders, Tags},
     tree   : {None} \cup {Some(p) : p \in Dirs},
     enter  : BOOLEAN,
     back   : BOOLEAN,
     click  : BOOLEAN,
     create : {"none", "file", "directory", "refused"}]

\* FileManagerApp::new (lines 507-567): is_indexing is created true, the
\* startup thread is spawned and its handle kept, the view is Folders, the
\* current directory is the home directory and last_indexed_path is empty.
AppInit ==
    /\ conn \in {EmptyConn(fk) : fk \in BOOLEAN}
    /\ lock = NoThread
    /\ pc = [t \in {} |-> "idle"]
    /\ arg = [t \in {} |-> NoArg]
    /\ ret = [t \in {} |-> None]
    /\ snap = [t \in {} |-> None]
    /\ attached = {}
    /\ writes = 0
    /\ disk = [present |-> DiskPaths, fault |-> "none", dir_len |-> 0]
    /\ crawl = [t \in {} |-> NoCrawl]
    /\ app = [current_view        |-> Folders,
              folder_current_path |-> PathA,
              last_indexed_path   |-> None,
              is_indexing         |-> TRUE,
              threads             |-> << Thread("startup", PathA) >>,
              dropped             |-> FALSE,
              frames              |-> 0,
              became              |-> [d \in Dirs |-> IF d = PathA THEN 1 ELSE 0],
              created             |-> [d \in Dirs |-> 0]]

\* The test of line 190.
NeedsIndexing(a) ==
    a.current_view = Folders /\ Some(a.folder_current_path) # a.last_indexed_path

\* Lines 190-198: a thread is spawned for the current directory, its handle
\* is let go, and last_indexed_path is set.
StartIndexing(a) ==
    IF NeedsIndexing(a)
    THEN [a EXCEPT !.threads = Append(@, Thread("navigation", a.folder_current_path)),
                   !.last_indexed_path = Some(a.folder_current_path)]
    ELSE a

\* An assignment to folder_current_path (lines 266, 312, 324, 340).
SetPath(a, to) ==
    IF IsSome(to) /\ Unwrap(to) # a.folder_current_path
    THEN [a EXCEPT !.folder_current_path = Unwrap(to),
                   !.became = [@ EXCEPT ![Unwrap(to)] = @ + 1]]
    ELSE a

\* The navigation of one frame of the folder view, in the order of the
\* code: the tree (line 266), Enter (312), ArrowLeft or Backspace (324) and
\* the click in the list (340).  Enter and the click open a directory of
\* the listing, which is the one made after the tree was handled (284).
Navigate(a, in) ==
    IF a.current_view # Folders THEN a
    ELSE LET a1 == SetPath(a, in.tree)
             listed == ChildDir(a1.folder_current_path)
             a2 == IF in.enter THEN SetPath(a1, listed) ELSE a1
             a3 == IF in.back THEN SetPath(a2, path_parent(a2.folder_current_path))
                   ELSE a2
         IN  IF in.click THEN SetPath(a3, listed) ELSE a3

\* fs::create_dir and File::create on the current directory joined with the
\* name (lines 570-572 and 580-582): create_dir fails on a path that
\* exists, and either can fail for the filesystem's own reasons.
Creates(d, a, in) ==
    /\ in.create \in {"file", "directory"}
    /\ ~ (in.create = "directory" /\ Join(a.folder_current_path, NewName) \in d.present)

\* refresh_current_directory (lines 592-600): a thread is spawned for the
\* current directory and its handle is let go.
refresh_current_directory(a) ==
    [a EXCEPT !.threads = Append(@, Thread("create", a.folder_current_path)),
              !.created = [@ EXCEPT ![a.folder_current_path] = @ + 1]]

\* One call of FileManagerApp::update (lines 84-504).
Update(in) ==
    /\ ~ app.dropped
    /\ app.frames < MaxFrames
    /\ LET a0 == [app EXCEPT !.frames = @ + 1,
                             !.current_view = IF in.view = "none" THEN @ ELSE in.view]
           a1 == Navigate(StartIndexing(a0), in)
       IN  /\ app' = IF Creates(disk, a1, in) THEN refresh_current_directory(a1)
                     ELSE a1
           /\ disk' = IF Creates(disk, a1, in)
                      THEN [disk EXCEPT !.present =
                               @ \cup {Join(a1.folder_current_path, NewName)}]
                      ELSE disk
    /\ UNCHANGED <<conn, lock, pc, arg, ret, snap, attached, writes, crawl>>

\* The closure of a spawned thread returns (lines 523-534, 193-197 and
\* 595-599).  The last statement of the startup closure is
\* is_indexing_clone.store(false) (line 533); the other closures hold no
\* reference to the flag.
ThreadReturns(i) ==
    /\ i \in DOMAIN app.threads
    /\ ~ app.threads[i].done
    /\ app' = [app EXCEPT !.threads[i].done = TRUE,
                          !.is_indexing = IF app.threads[i].kind = "startup"
                                          THEN FALSE ELSE @]
    /\ UNCHANGED <<conn, lock, pc, arg, ret, snap, attached, writes, disk, crawl>>

\* Drop for FileManagerApp (lines 43-49): handle.join() on indexing_thread
\* returns when that thread has returned; no other handle was kept.
Drop ==
    /\ ~ app.dropped
    /\ app.threads[1].done
    /\ app' = [app EXCEPT !.dropped = TRUE]
    /\ UNCHANGED <<conn, lock, pc, arg, ret, snap, attached, writes, disk, crawl>>

\* The threads one run can start.
ThreadIds == 1 .. (1 + 2 * MaxFrames)

AppNext ==
    \/ \E in \in FrameInputs : Update(in)
    \/ \E i \in ThreadIds : ThreadReturns(i)
    \/ Drop

AppSpec == AppInit /\ [][AppNext]_vars

(***************************************************************************)
(* The central panel of the interface (app.rs 84-403): the list a frame    *)
(* shows and the row the keyboard has selected.  Here app holds            *)
(*   current_view, search_query, last_search_query, directory_search_mode, *)
(*   show_hidden_files, tag_selected, folder_current_path and              *)
(*   selected_file_index, the fields of FileManagerApp of these names      *)
(*   files_result, tags_result   what the store returned in the last frame *)
(*   files, tags                 the lists that frame handed to the view   *)
(* Between two frames a crawler thread may complete an insert_file; the    *)
(* frame waits for the lock like any caller, so it reads the store before  *)
(* or after such a call.  No tag is ever listed (index_file never gets to  *)
(* add_tag_to_file), so tag_selected stays None.                           *)
(***************************************************************************)
\* The records the crawler builds on the tree "/a".
ViewDisk == [present |-> DiskPaths, fault |-> "none", dir_len |-> 0]

ViewEntries ==
    {BuildEntry(p, metadata(ViewDisk, p).val) : p \in {DiskFile, DiskSub, DiskLink}}

\* What can be typed into the search field.
ViewQueries == {<< >>, << "b" >>}

\* The rows a click can land on.
MaxRows == 3

\* SearchEngine::search, search_in_directory and search_by_tag as their
\* caller sees them (search.rs 16-98).
search(c, query) ==
    IF query = << >> THEN {Ok(<< >>)} ELSE search_query(c, query)

search_in_directory(c, dir_path, query) ==
    IF query = << >> THEN search_in_directory_delegate(c, dir_path)
    ELSE search_in_directory_query(c, dir_path, query)

search_by_tag(c, tag_name, query) ==
    {IF ~ r.ok THEN r
     ELSE IF query # << >> THEN Ok(Retain(r.val, query))
     ELSE r : r \in get_files_by_tag(c, tag_name)}

\* The statement cannot be prepared or stepped (the storage is
\* unavailable): the method returns Err.  In one frame the query for the
\* list fails, the query for the tags fails, or none does.
StoreFaults == {{}, {"files"}, {"tags"}}

Faulted(results, failing) == IF failing THEN {Err} ELSE results

\* Faulty variant: the error is shown as a row of the list.
ErrorRow == FileEntry(<< "?" >>, << "?" >>, File, 0, 0, None)
unwrap_or_error_row(r) == IF r.ok THEN r.val ELSE << ErrorRow >>

\* Result::unwrap_or_default (lines 292 and 365, tag_view.rs 19): the value
\* of an Ok, an empty Vec for an Err.
unwrap_or_default(r) == IF r.ok THEN r.val ELSE << >>

\* files.retain(|file| !file.name.starts_with('.')) (lines 294-296).
starts_with_dot(name) == name # << >> /\ name[1] = "."

RetainVisible(files, show_hidden_files) ==
    IF show_hidden_files THEN files
    ELSE SelectSeq(files, LAMBDA f : ~ starts_with_dot(f.name))

saturating_sub(a, b) == IF a > b THEN a - b ELSE 0
min(a, b) == IF a < b THEN a ELSE b

\* handle_list_navigation (lines 51-69).
handle_list_navigation(selected_index, len, down, up) ==
    LET s1 == IF down
              THEN Some(IF IsSome(selected_index)
                        THEN min(Unwrap(selected_index) + 1, saturating_sub(len, 1))
                        ELSE 0)
              ELSE selected_index
    IN  IF ~ up THEN s1
        ELSE IF IsSome(s1) THEN Some(saturating_sub(Unwrap(s1), 1))
        ELSE IF len > 0 THEN Some(len - 1)
        ELSE None

\* What one frame is given: at most one of a text typed into the search
\* field (Escape clears it), Cmd+1 or Cmd+2, a click on a tab, Cmd+Alt+F,
\* an arrow key, Enter, ArrowLeft or Backspace, a click on a directory of
\* the tree, on a component of the path shown above the list, on a row of
\* the list, or on "All Files".  No name of the tree begins with a dot, so
\* Cmd+. (show_hidden_files) is left at its initial value.
ViewEvents ==
    {[kind |-> k, to |-> << >>, row |-> 0] :
        k \in {"none", "dir_mode", "down", "up", "enter", "back", "all_files"}}
    \cup {[kind |-> "type", to |-> q, row |-> 0] : q \in ViewQueries}
    \cup {[kind |-> k, to |-> v, row |-> 0] : k \in {"key_view", "tab"}, v \in {Folders, Tags}}
    \cup {[kind |-> k, to |-> d, row |-> 0] : k \in {"tree", "crumb"}, d \in Dirs}
    \cup {[kind |-> "click", to |-> << >>, row |-> i] : i \in 0 .. (MaxRows - 1)}

\* The store queried by the view of a (lines 285-291 and 358-364).
files_query(c, a) ==
    IF a.current_view = Folders
    THEN IF a.search_query = << >>
         THEN get_files_in_directory(c, a.folder_current_path)
         ELSE IF a.directory_search_mode
         THEN search_in_directory(c, a.folder_current_path, a.search_query)
         ELSE search(c, a.search_query)
    ELSE IF IsSome(a.tag_selected)
         THEN search_by_tag(c, Unwrap(a.tag_selected), a.search_query)
         ELSE IF a.search_query = << >> THEN {Ok(<< >>)}
         ELSE search(c, a.search_query)

\* The directories the tree can show (file_tree.rs): the root, and the
\* directories listed as children of a directory it shows.
RECURSIVE InTree(_, _)
InTree(c, d) ==
    \/ d = Root
    \/ \E r \in c.files :
           /\ r.path = d
           /\ r.file_type = SqlDirectory
           /\ IsSome(r.parent)
           /\ Len(Unwrap(r.parent)) < Len(d)
           /\ InTree(c, Unwrap(r.parent))

\* The path made of the first components of path.
IsAncestorOrSelf(d, path) ==
    d = path \/ d = Root
    \/ (Len(d) < Len(path) /\ SubSeq(path, 1, Len(d)) = d /\ path[Len(d) + 1] = "/")

ViewInit ==
    /\ conn \in {EmptyConn(fk) : fk \in BOOLEAN}
    /\ lock = NoThread
    /\ pc = [t \in {} |-> "idle"]
    /\ arg = [t \in {} |-> NoArg]
    /\ ret = [t \in {} |-> None]
    /\ snap = [t \in {} |-> None]
    /\ attached = {}
    /\ writes = 0
    /\ disk = ViewDisk
    /\ crawl = [t \in {} |-> NoCrawl]
    /\ app = [current_view          |-> Folders,
              search_query          |-> << >>,
              last_search_query     |-> << >>,
              directory_search_mode |-> FALSE,
              show_hidden_files     |-> FALSE,
              tag_selected          |-> None,
              folder_current_path   |-> PathA,
              selected_file_index   |-> None,
              files_result          |-> Ok(<< >>),
              files                 |-> << >>,
              tags_result           |-> Ok(<< >>),
              tags                  |-> << >>]

\* The head of update up to the panels (lines 87-188).
ViewKeys(a, ev) ==
    LET a1 == IF a.search_query # a.last_search_query
              THEN [a EXCEPT !.selected_file_index = None,
                             !.last_search_query = a.search_query]
              ELSE a
        a2 == IF a1.current_view = Folders /\ ev.kind = "dir_mode"
              THEN [a1 EXCEPT !.directory_search_mode = ~ @,
                              !.selected_file_index = None]
              ELSE a1
        a3 == IF ev.kind = "key_view"
              THEN [a2 EXCEPT !.current_view = ev.to, !.selected_file_index = None]
              ELSE a2
        a5 == IF ev.kind = "tab" THEN [a3 EXCEPT !.current_view = ev.to] ELSE a3
    IN  IF ev.kind = "type" THEN [a5 EXCEPT !.search_query = ev.to] ELSE a5

\* The tree panel (lines 207-279).
ViewTree(c, a, ev) ==
    IF a.current_view = Folders /\ ev.kind = "tree" /\ InTree(c, ev.to)
    THEN [a EXCEPT !.folder_current_path = ev.to, !.selected_file_index = None]
    ELSE a

\* The folder view with the list files (lines 292-355).
ViewFolders(a, ev, files) ==
    LET a1 == [a EXCEPT !.selected_file_index =
                  IF Len(files) > 0
                  THEN handle_list_navigation(@, Len(files),
                                              ev.kind = "down", ev.kind = "up")
                  ELSE None]
        idx == a1.selected_file_index
        a2 == IF /\ ev.kind = "enter" /\ IsSome(idx) /\ Unwrap(idx) < Len(files)
                 /\ files[Unwrap(idx) + 1].file_type = Directory
              THEN [a1 EXCEPT !.folder_current_path = files[Unwrap(idx) + 1].path,
                              !.selected_file_index = None]
              ELSE a1
        a3 == IF ev.kind = "back" /\ IsSome(path_parent(a2.folder_current_path))
              THEN [a2 EXCEPT !.folder_current_path = Unwrap(path_parent(@)),
                              !.selected_file_index = None]
              ELSE a2
        a4 == IF ev.kind = "crumb" /\ IsAncestorOrSelf(ev.to, a3.folder_current_path)
              THEN [a3 EXCEPT !.folder_current_path = ev.to,
                              !.selected_file_index = None]
              ELSE a3
    IN  IF /\ ev.kind = "click" /\ ev.row < Len(files)
           /\ files[ev.row + 1].file_type = Directory
        THEN [a4 EXCEPT !.folder_current_path = files[ev.row + 1].path,
                        !.selected_file_index = None]
        ELSE a4

\* The tag view with the list files (lines 365-400).
ViewTags(a, ev, files) ==
    LET a1 == [a EXCEPT !.selected_file_index =
                  IF Len(files) > 0
                  THEN handle_list_navigation(@, Len(files),
                                              ev.kind = "down", ev.kind = "up")
                  ELSE None]
    IN  IF ev.kind = "all_files"
        THEN [a1 EXCEPT !.tag_selected = None, !.selected_file_index = None]
        ELSE a1

\* One call of FileManagerApp::update, as far as the list goes; failing is
\* the set of queries the store fails in this frame.
ViewUpdate(ev, failing) ==
    LET a1 == ViewTree(conn, ViewKeys(app, ev), ev)
    IN  \E fr \in Faulted(files_query(conn, a1), "files" \in failing),
           tr \in Faulted(get_all_tags(conn), "tags" \in failing) :
            LET files == RetainVisible(unwrap_or_default(fr), a1.show_hidden_files)
                a2    == IF a1.current_view = Folders
                         THEN ViewFolders(a1, ev, files)
                         ELSE ViewTags(a1, ev, files)
            IN  /\ app' = [a2 EXCEPT
                              !.files_result = fr,
                              !.files = files,
                              !.tags_result = IF a1.current_view = Tags THEN tr ELSE @,
                              !.tags = IF a1.current_view = Tags
                                       THEN unwrap_or_default(tr) ELSE @]
                /\ UNCHANGED <<conn, lock, pc, arg, ret, snap, attached, writes,
                               disk, crawl>>

\* A crawler thread completes insert_file (tag_db.rs 103-136) between two
\* frames: the row is written and the text-index statement fails.
ViewIndexed(entry) ==
    /\ writes < MaxRecords
    /\ writes' = writes + 1
    /\ conn' = UpsertFilesFts(InsertOrReplaceFile(conn, entry).conn, entry).conn
    /\ UNCHANGED <<lock, pc, arg, ret, snap, attached, disk, crawl, app>>

ViewNext ==
    \/ \E ev \in ViewEvents, failing \in StoreFaults : ViewUpdate(ev, failing)
    \/ \E entry \in ViewEntries : ViewIndexed(entry)

ViewSpec == ViewInit /\ [][ViewNext]_vars

(***************************************************************************)
(* A crawler thread and a thread that queries, on one store.  Here a call  *)
(* of the query engine is split at every lock(): the caller is at pc       *)
(* "called" when the method has been entered, and it waits at a lock()     *)
(* until the Mutex is free.                                                *)
(***************************************************************************)
Callers == {2}
LockThreads == Crawlers \cup Callers

CallArgs ==
    {[op |-> "search_in_directory", dir_path |-> PathA, query |-> q] :
        q \in {<< >>, << "b" >>}}
    \cup {[op |-> "search_by_tag", tag_name |-> TagRed, query |-> q] :
             q \in {<< >>, << "b" >>}}

\* The interface calls a method of SearchEngine.
CallerCall(t, a) ==
    /\ pc[t] = "idle"
    /\ pc' = [pc EXCEPT ![t] = "called"]
    /\ arg' = [arg EXCEPT ![t] = a]
    /\ UNCHANGED <<conn, lock, ret, snap, attached, writes, disk, crawl, app>>

\* Faulty variant: search_in_directory takes the lock before it looks at
\* the query, and still holds it when it calls get_files_in_directory.
SearchInDirectoryLocksFirst(t) ==
    /\ arg[t].op = "search_in_directory"
    /\ EnterFrom(t, "called", arg[t],
                 IF arg[t].query = << >> THEN "get_files_in_directory_called"
                 ELSE "search_in_directory_query")
    /\ UNCHANGED <<crawl, attached, writes>>

\* The head of search_in_directory (search.rs 52-56): with an empty query
\* get_files_in_directory is called and no lock is taken here; otherwise
\* lock() at line 56.
SearchInDirectoryHead(t) ==
    /\ arg[t].op = "search_in_directory"
    /\ IF arg[t].query = << >>
       THEN /\ pc[t] = "called"
            /\ pc' = [pc EXCEPT ![t] = "get_files_in_directory_called"]
            /\ UNCHANGED <<conn, lock, arg, ret, snap, disk, app>>
       ELSE EnterFrom(t, "called", arg[t], "search_in_directory_query")
    /\ UNCHANGED <<crawl, attached, writes>>

\* lock() of get_files_in_directory (tag_db.rs 206), called from line 53.
GetFilesInDirectoryLock(t) ==
    /\ EnterFrom(t, "get_files_in_directory_called", arg[t],
                 "search_in_directory_delegate")
    /\ UNCHANGED <<crawl, attached, writes>>

\* search_by_tag (search.rs 87) calls get_files_by_tag, whose lock() is at
\* tag_db.rs 177; search_by_tag itself takes no lock.
SearchByTagHead(t) ==
    /\ arg[t].op = "search_by_tag"
    /\ EnterFrom(t, "called", arg[t], "search_by_tag_get_files")
    /\ UNCHANGED <<crawl, attached, writes>>

\* The steps of a caller inside a call.
CallerThread(t) ==
    \/ SearchInDirectoryHead(t)
    \/ GetFilesInDirectoryLock(t)
    \/ SearchInDirectoryDelegate(t)
    \/ SearchInDirectoryQuery(t)
    \/ SearchByTagHead(t)
    \/ SearchByTagGetFiles(t)
    \/ SearchByTagRetain(t)
    \/ Return(t)

\* The steps of a crawler inside a job: index_file on one path, or the
\* crawl of one directory's entries (the deep walk locks as this one does).
CrawlerThread(t) ==
    \/ ShallowNext(t)
    \/ IndexFileMetadata(t)
    \/ InsertFileFiles(t)
    \/ InsertFileFts(t)
    \/ IndexFileResume(t)

LockInit ==
    /\ conn \in {EmptyConn(fk) : fk \in BOOLEAN}
    /\ lock = NoThread
    /\ pc = [t \in LockThreads |-> "idle"]
    /\ arg = [t \in LockThreads |-> NoArg]
    /\ ret = [t \in LockThreads |-> None]
    /\ snap = [t \in LockThreads |-> None]
    /\ attached = {}
    /\ writes = 0
    /\ disk = ViewDisk
    /\ crawl = [t \in LockThreads |-> NoCrawl]
    /\ app = NoApp

LockNext ==
    \/ \E t \in Crawlers :
           \/ IndexFileCall(t, Root)
           \/ IndexDirectoryShallowCall(t, PathA)
           \/ ShallowNext(t)
           \/ IndexFileMetadata(t)
           \/ InsertFileFiles(t)
           \/ InsertFileFts(t)
           \/ IndexFileResume(t)
    \/ \E t \in Callers :
           \/ \E a \in CallArgs : CallerCall(t, a)
           \/ SearchInDirectoryHead(t)
           \/ GetFilesInDirectoryLock(t)
           \/ SearchInDirectoryDelegate(t)
           \/ SearchInDirectoryQuery(t)
           \/ SearchByTagHead(t)
           \/ SearchByTagGetFiles(t)
           \/ SearchByTagRetain(t)
           \/ Return(t)

LockSpec == LockInit /\ [][LockNext]_vars

\* Fair scheduling: a thread inside a call or a job that can take a step
\* again and again takes one, so a thread waiting at lock() gets the Mutex
\* if it is freed again and again.
LockFairSpec ==
    /\ LockSpec
    /\ \A t \in Crawlers : SF_vars(CrawlerThread(t))
    /\ \A t \in Callers : SF_vars(CallerThread(t))

(***************************************************************************)
(* The specification: the store after TagDatabase::new, used by threads.   *)
(***************************************************************************)
Init ==
    /\ conn \in {EmptyConn(fk) : fk \in BOOLEAN}
    /\ lock = NoThread
    /\ pc = [t \in Threads |-> "idle"]
    /\ arg = [t \in Threads |-> NoArg]
    /\ ret = [t \in Threads |-> None]
    /\ snap = [t \in Threads |-> None]
    /\ attached = {}
    /\ writes = 0
    /\ disk = NoDisk
    /\ crawl = [t \in Threads |-> NoCrawl]
    /\ app = NoApp

Next ==
    \E t \in Threads :
        \/ InsertFileCall(t)
        \/ InsertFileFiles(t)
        \/ InsertFileFts(t)
        \/ AddTagCall(t)
        \/ AddTagTags(t)
        \/ AddTagFileTags(t)
        \/ GetAllTags(t)
        \/ GetFilesByTag(t)
        \/ GetFilesInDirectory(t)
        \/ GetDirectory(t)
        \/ Search(t)
        \/ SearchInDirectory(t)
        \/ Return(t)

Spec == Init /\ [][Next]_vars

\* The store after TagDatabase::new, used by the one thread that browses.
BrowseInit ==
    /\ conn \in {EmptyConn(fk) : fk \in BOOLEAN}
    /\ lock = NoThread
    /\ pc = [t \in Browsers |-> "idle"]
    /\ arg = [t \in Browsers |-> NoArg]
    /\ ret = [t \in Browsers |-> None]
    /\ snap = [t \in Browsers |-> None]
    /\ attached = {}
    /\ writes = 0
    /\ disk = NoDisk
    /\ crawl = [t \in Browsers |-> NoCrawl]
    /\ app = NoApp

BrowseNext ==
    \E t \in Browsers :
        \/ BrowseIndex(t)
        \/ InsertFileFiles(t)
        \/ InsertFileFts(t)
        \/ BrowseTag(t)
        \/ AddTagTags(t)
        \/ AddTagFileTags(t)
        \/ GetFilesByTag(t)
        \/ GetFilesInDirectory(t)
        \/ BrowseSearch(t)
        \/ BrowseSearchInDirectory(t)
        \/ BrowseSearchByTag(t)
        \/ Return(t)

BrowseSpec == BrowseInit /\ [][BrowseNext]_vars

(***************************************************************************)
(* Properties.                                                             *)
(***************************************************************************)
\* Thread t has run every statement of a call of op and is about to return.
AtReturn(t, op) == pc[t] = "return" /\ arg[t].op = op

RowsAt(c, path) == {r \in c.files : r.path = path}

\* The links of one tag, and of one (path, tag) pair, counted with copies.
LinksOfTag(c, tag_name) ==
    BagCardinality([l \in {x \in DOMAIN c.file_tags : x.tag_name = tag_name}
                       |-> c.file_tags[l]])

LinksOfPair(c, path, tag_name) ==
    BagCardinality([l \in {x \in DOMAIN c.file_tags :
                              x.file_path = path /\ x.tag_name = tag_name}
                       |-> c.file_tags[l]])

\* The fields of a stored row are those of the entry (the rowid aside).
SameFields(row, entry) ==
    /\ row.path = normalize_path(entry.path)
    /\ row.name = entry.name
    /\ SqlToFileType(row.file_type) = entry.file_type
    /\ row.file_type \in {SqlFile, SqlDirectory}
    /\ row.size = entry.size
    /\ row.modified = entry.modified
    /\ row.parent = IF IsSome(entry.parent)
                    THEN Some(normalize_path(Unwrap(entry.parent)))
                    ELSE None

\* C1: files holds at most one row per stored path, and when insert_file
\* has run, exactly one row for the path it was given, also when the same
\* path was already indexed with the same metadata.
C1_OneRecordPerPath ==
    /\ \A r1, r2 \in conn.files : r1.path = r2.path => r1 = r2
    /\ \A t \in DOMAIN pc :
           AtReturn(t, "insert_file") =>
               Cardinality(RowsAt(conn, normalize_path(arg[t].entry.path))) = 1

\* C1 witness: insert_file has run for a path that was already stored with
\* the same metadata.
C1_Witness ==
    \E t \in DOMAIN pc :
        /\ AtReturn(t, "insert_file")
        /\ \E old \in Unwrap(snap[t]).files : SameFields(old, arg[t].entry)

\* C2: when insert_file(r) has run, the one row stored at normalize(r.path)
\* carries r's name, kind, size, modified and (normalized) parent, whatever
\* row was stored at that path before.
C2_LastWriteWins ==
    \A t \in DOMAIN pc :
        AtReturn(t, "insert_file") =>
            /\ RowsAt(conn, normalize_path(arg[t].entry.path)) # {}
            /\ \A row \in RowsAt(conn, normalize_path(arg[t].entry.path)) :
                   SameFields(row, arg[t].entry)

\* C2 witness: insert_file has run over a row that differed from the new
\* entry in name, kind, size, modified and parent.
C2_Witness ==
    \E t \in DOMAIN pc :
        /\ AtReturn(t, "insert_file")
        /\ \E old \in RowsAt(Unwrap(snap[t]), normalize_path(arg[t].entry.path)) :
               /\ old.name # arg[t].entry.name
               /\ SqlToFileType(old.file_type) # arg[t].entry.file_type
               /\ old.size # arg[t].entry.size
               /\ old.modified # arg[t].entry.modified
               /\ old.parent # (IF IsSome(arg[t].entry.parent)
                                THEN Some(normalize_path(Unwrap(arg[t].entry.parent)))
                                ELSE None)

\* The text-index entry that belongs to a row of files.
FtsEntryOf(row) == [rowid |-> row.rowid, name |-> row.name, path |-> row.path]

\* C3: whenever no call is in progress, the text index holds exactly one
\* entry per row of files, keyed by the row's rowid and carrying its name
\* and path.
C3_TextIndexInLockstep ==
    (\A t \in DOMAIN pc : pc[t] = "idle") =>
        conn.files_fts = {FtsEntryOf(row) : row \in conn.files}

\* C4: a call of insert_file or add_tag_to_file that returns an error has
\* left every table as it was when the call began.
C4_FailedWriteChangesNothing ==
    \A t \in DOMAIN pc :
        /\ pc[t] = "return"
        /\ arg[t].op \in {"insert_file", "add_tag_to_file"}
        /\ ret[t] = Some(Err)
        => Tables(conn) = Unwrap(snap[t])

\* The statements of the store: a thread at one of them is inside its
\* critical section.
StorePcs ==
    {"insert_file_files", "insert_file_fts", "add_tag_tags", "add_tag_file_tags",
     "get_all_tags_query", "get_files_by_tag_query", "get_files_in_directory_query",
     "get_directory_query", "search_query", "search_in_directory_delegate",
     "search_in_directory_query", "search_by_tag_get_files"}

\* Between the two writes of insert_file or of add_tag_to_file.
BetweenWrites(t) == pc[t] \in {"insert_file_fts", "add_tag_file_tags"}

\* C5: a thread about to run any statement of a store operation holds the
\* lock, and while a thread is between the two writes of insert_file or
\* add_tag_to_file no other thread is at a statement of the store.
C5_OperationsHoldTheLock ==
    /\ \A t \in DOMAIN pc : pc[t] \in StorePcs => lock = t
    /\ \A w, r \in DOMAIN pc :
           (w # r /\ BetweenWrites(w)) => pc[r] \notin StorePcs

\* C5 witness: one thread is between the two writes of insert_file, its
\* files row written, holding the lock another thread would need.
C5_Witness ==
    \E w, r \in DOMAIN pc :
        /\ w # r
        /\ pc[w] = "insert_file_fts"
        /\ conn.files # Unwrap(snap[w]).files
        /\ lock = w
        /\ pc[r] = "idle"

\* No trailing separator, the root path aside.
Canonical(path) == ~ EndsWithSlash(path) \/ path = Root

\* C6: every path stored as the key of a files row, as its parent or as
\* the path of a link has no trailing separator unless it is "/".
C6_StoredPathsCanonical ==
    /\ \A r \in conn.files :
           /\ Canonical(r.path)
           /\ IsSome(r.parent) => Canonical(Unwrap(r.parent))
    /\ \A l \in DOMAIN conn.file_tags : Canonical(l.file_path)

HomeA == << "/", "h", "o", "m", "e", "/", "a" >>

\* The paths without a trailing separator that the callers use, and "/".
CanonicalArgs == {p \in PathArgs \cup {Root} : Canonical(p)}

AddTagAgain(c, file_path, tag_name) ==
    LET first == InsertOrIgnoreTag(c, tag_name)
    IN  IF first.ok THEN InsertOrIgnoreFileTag(first.conn, file_path, tag_name).conn
        ELSE first.conn

\* The file_count every admissible answer of get_all_tags gives for a tag.
ReportedCounts(c, tag_name) ==
    {r.val[i].file_count :
        <<r, i>> \in {x \in get_all_tags(c) \X (1 .. BagCardinality(c.tags)) :
                         /\ x[2] <= Len(x[1].val)
                         /\ x[1].val[x[2]].name = tag_name}}

\* What C8 asks of the state in which add_tag_to_file(p, t) has run: a
\* second call would change nothing, there is exactly one (p, t) link, and
\* get_all_tags counts each linked path of t once.
AttachedOnce(t) ==
    LET path == normalize_path(arg[t].file_path)
        tag  == arg[t].tag_name
    IN  /\ AddTagAgain(conn, arg[t].file_path, tag) = conn
        /\ LinksOfPair(conn, path, tag) = 1
        /\ ReportedCounts(conn, tag)
               = {Cardinality({l \in DOMAIN conn.file_tags : l.tag_name = tag})}

\* C8 as stated: for every path p and tag t, when add_tag_to_file(p, t) has
\* run (once or twice) the state is that of one call, with exactly one
\* (p, t) link counted once.
C8_AttachIdempotentEveryPath ==
    \A t \in DOMAIN pc : AtReturn(t, "add_tag_to_file") => AttachedOnce(t)

\* C8 amended: the same for every path p that has a row in files.
C8_AttachIdempotentIndexedPath ==
    \A t \in DOMAIN pc :
        /\ AtReturn(t, "add_tag_to_file")
        /\ RowsAt(conn, normalize_path(arg[t].file_path)) # {}
        => AttachedOnce(t)

\* C8 witness: add_tag_to_file has run a second time for an indexed path
\* whose link to the tag was already there.
C8_Witness ==
    \E t \in DOMAIN pc :
        /\ AtReturn(t, "add_tag_to_file")
        /\ RowsAt(conn, normalize_path(arg[t].file_path)) # {}
        /\ LinksOfPair(Unwrap(snap[t]), normalize_path(arg[t].file_path),
                       arg[t].tag_name) = 1

\* C9: the file_count that get_all_tags is about to return for a tag is the
\* number of file_tags rows of that tag in the tables it has just read.
C9_FileCountIsLiveCount ==
    \A t \in DOMAIN pc :
        AtReturn(t, "get_all_tags") =>
            \A i \in 1 .. Len(Unwrap(ret[t]).val) :
                Unwrap(ret[t]).val[i].file_count
                    = LinksOfTag(conn, Unwrap(ret[t]).val[i].name)

\* C9 witness: get_all_tags reports one tag with two links and one with
\* none or one.
C9_Witness ==
    \E t \in DOMAIN pc :
        /\ AtReturn(t, "get_all_tags")
        /\ \E i \in 1 .. Len(Unwrap(ret[t]).val) :
               Unwrap(ret[t]).val[i].file_count = 2

\* C10: every row of tags names a tag add_tag_to_file was called with; when
\* add_tag_to_file has run the tag has a row; and the rows of tags that
\* were there when it began are there unchanged, color included.
C10_TagsComeFromAttach ==
    /\ \A r \in DOMAIN conn.tags : r.name \in attached
    /\ \A t \in DOMAIN pc :
           AtReturn(t, "add_tag_to_file") =>
               /\ \E r \in DOMAIN conn.tags : r.name = arg[t].tag_name
               /\ \A r \in DOMAIN Unwrap(snap[t]).tags :
                      /\ r \in DOMAIN conn.tags
                      /\ conn.tags[r] = Unwrap(snap[t]).tags[r]

\* C10 witness: add_tag_to_file has run for a tag that already had a row.
C10_Witness ==
    \E t \in DOMAIN pc :
        /\ AtReturn(t, "add_tag_to_file")
        /\ \E r \in DOMAIN Unwrap(snap[t]).tags : r.name = arg[t].tag_name

(***************************************************************************)
(* Properties of the queries.                                              *)
(***************************************************************************)
\* The value of the Ok result thread t is about to return.
Returned(t) == Unwrap(ret[t]).val

ReturnsOk(t) == IsSome(ret[t]) /\ Unwrap(ret[t]).ok

\* The entries of the sequence fs, as a set.
EntriesOf(fs) == {fs[i] : i \in 1 .. Len(fs)}

\* fs lists each of the given rows of files once, as a FileEntry, and
\* nothing else.
ListsExactly(fs, rows) ==
    /\ Len(fs) = Cardinality(rows)
    /\ EntriesOf(fs) = {RowToEntry(r) : r \in rows}

\* No File-kind entry stands before a Directory-kind entry.
DirectoriesFirst(fs) ==
    \A i, j \in 1 .. Len(fs) :
        i < j => ~ (fs[i].file_type = File /\ fs[j].file_type = Directory)

\* Entries of the same kind stand in ascending order of name.
NameAscendingWithinKind(fs) ==
    \A i, j \in 1 .. Len(fs) :
        (i < j /\ fs[i].file_type = fs[j].file_type)
            => ~ TextLess(fs[j].name, fs[i].name)

\* No entry stands before an entry of a smaller name.
NameAscending(fs) ==
    \A i, j \in 1 .. Len(fs) : i < j => ~ TextLess(fs[j].name, fs[i].name)

ChildrenOf(c, dir_path) ==
    {r \in c.files : r.parent = Some(normalize_path(dir_path))}

\* C11: what get_files_in_directory(parent) is about to return is exactly
\* the rows whose parent is normalize(parent), every Directory before every
\* File and each kind in ascending order of name.
C11_ListingDirectoriesFirst ==
    \A t \in DOMAIN pc :
        AtReturn(t, "get_files_in_directory") =>
            /\ ReturnsOk(t)
            /\ ListsExactly(Returned(t), ChildrenOf(conn, arg[t].dir_path))
            /\ DirectoriesFirst(Returned(t))
            /\ NameAscendingWithinKind(Returned(t))

\* The rows of files stored at a path whose kind is Directory.
DirectoriesAt(c, path) ==
    {r \in RowsAt(c, path) : SqlToFileType(r.file_type) = Directory}

\* C12: get_directory(path) never returns an error; it returns the record
\* stored at normalize(path) when that record is a Directory, and None when
\* no record is stored there or the record is a File.
C12_GetDirectoryOnlyDirectories ==
    \A t \in DOMAIN pc :
        AtReturn(t, "get_directory") =>
            /\ ReturnsOk(t)
            /\ LET dirs == DirectoriesAt(conn, normalize_path(arg[t].dir_path))
               IN  IF dirs = {} THEN Returned(t) = None
                   ELSE /\ IsSome(Returned(t))
                        /\ Unwrap(Returned(t)) \in {RowToEntry(r) : r \in dirs}

\* C12 witness: get_directory has answered None for a path at which a File
\* record is stored.
C12_Witness ==
    \E t \in DOMAIN pc :
        /\ AtReturn(t, "get_directory")
        /\ RowsAt(conn, normalize_path(arg[t].dir_path)) # {}
        /\ DirectoriesAt(conn, normalize_path(arg[t].dir_path)) = {}
        /\ Returned(t) = None

\* The rows of files whose path is linked to a tag.
LinkedTo(c, tag_name) ==
    {r \in c.files :
        \E l \in DOMAIN c.file_tags : l.file_path = r.path /\ l.tag_name = tag_name}

\* C13: what get_files_by_tag(tag) is about to return is never an error; it
\* lists the files linked to the tag, each once and no other file, in
\* ascending order of name, and is empty for a tag that was never attached.
C13_FilesWithTag ==
    \A t \in DOMAIN pc :
        AtReturn(t, "get_files_by_tag") =>
            /\ ReturnsOk(t)
            /\ ListsExactly(Returned(t), LinkedTo(conn, arg[t].tag_name))
            /\ NameAscending(Returned(t))
            /\ arg[t].tag_name \notin attached => Returned(t) = << >>

\* C13 witness: get_files_by_tag has listed two linked files of different
\* names while a third file is stored that has no link to the tag.
C13_Witness ==
    \E t \in DOMAIN pc :
        /\ AtReturn(t, "get_files_by_tag")
        /\ Len(Returned(t)) = 2
        /\ Returned(t)[1].name # Returned(t)[2].name
        /\ \E r \in conn.files : r \notin LinkedTo(conn, arg[t].tag_name)

\* C14: what get_all_tags is about to return names every row of tags, each
\* name once, in strictly ascending order of name.
C14_ListTagsEachOnceByName ==
    \A t \in DOMAIN pc :
        AtReturn(t, "get_all_tags") =>
            /\ ReturnsOk(t)
            /\ {Returned(t)[i].name : i \in 1 .. Len(Returned(t))}
                   = {r.name : r \in DOMAIN conn.tags}
            /\ \A i, j \in 1 .. Len(Returned(t)) :
                   i < j => TextLess(Returned(t)[i].name, Returned(t)[j].name)

\* C14 witness: get_all_tags has listed two tags, one of them linked to
\* two paths.
C14_Witness ==
    \E t \in DOMAIN pc :
        /\ AtReturn(t, "get_all_tags")
        /\ Len(Returned(t)) = 2
        /\ \E l1, l2 \in DOMAIN conn.file_tags :
               l1 # l2 /\ l1.tag_name = l2.tag_name

\* The query equals, ignoring letter case, a substring of the text.
OccursIgnoringCase(text, query) ==
    Contains(to_lowercase(text), to_lowercase(query))

\* The rows of files in whose name or path the query occurs, ignoring case.
RowsContaining(c, query) ==
    {r \in c.files : \/ OccursIgnoringCase(r.name, query)
                     \/ OccursIgnoringCase(r.path, query)}

\* C15: what search(query) is about to return for a non-empty query holds
\* every stored record in whose name or path the query occurs, ignoring
\* letter case on both sides, when fewer than 1000 records match.
C15_SearchIgnoresCase ==
    \A t \in DOMAIN pc :
        (AtReturn(t, "search") /\ arg[t].query # << >>) =>
            /\ ReturnsOk(t)
            /\ Cardinality(RowsContaining(conn, arg[t].query)) < SearchLimit
                   => \A r \in RowsContaining(conn, arg[t].query) :
                          RowToEntry(r) \in EntriesOf(Returned(t))

\* C16: when search or search_in_directory is about to return for a
\* non-empty query, every record returned has the query itself, ignoring
\* case, inside its name or its path, and the statement's WHERE clause has
\* selected, among the stored records, exactly those that the closure of
\* search_by_tag's retain keeps.
C16_PlainSubstringMatch ==
    \A t \in DOMAIN pc :
        (/\ pc[t] = "return"
         /\ arg[t].op \in {"search", "search_in_directory"}
         /\ arg[t].query # << >>) =>
            /\ ReturnsOk(t)
            /\ \A i \in 1 .. Len(Returned(t)) :
                   RetainKeeps(Returned(t)[i], arg[t].query)
            /\ \A r \in conn.files :
                   RowMatches(r, arg[t].query)
                       <=> RetainKeeps(RowToEntry(r), arg[t].query)

\* The entries the WHERE clause of search selects for a query.
MatchesOf(c, query) == {RowToEntry(r) : r \in {x \in c.files : RowMatches(x, query)}}

Smaller(a, b) == IF a < b THEN a ELSE b

\* fs is the first n of the matches in ascending order of name: it has n
\* entries, or all the matches when there are fewer, each a match listed
\* once, in order, and no match left out has a smaller name than one listed.
FirstByName(fs, matches, n) ==
    /\ Len(fs) = Smaller(n, Cardinality(matches))
    /\ EntriesOf(fs) \subseteq matches
    /\ Cardinality(EntriesOf(fs)) = Len(fs)
    /\ NameAscending(fs)
    /\ \A m \in matches \ EntriesOf(fs) :
           \A i \in 1 .. Len(fs) : ~ TextLess(m.name, fs[i].name)

\* The LIMIT clauses the statement of search is tried with.
Limits == 1 .. MaxLimit

\* C17: what search(query) is about to return for a non-empty query is in
\* ascending order of name, has at most 1000 rows and is the first 1000 of
\* the matches in that order; and the statement of search with LIMIT n in
\* place of LIMIT 1000 returns exactly n rows, the first n in name order,
\* whenever more than n records match.
C17_SearchOrderedAndCapped ==
    \A t \in DOMAIN pc :
        (AtReturn(t, "search") /\ arg[t].query # << >>) =>
            LET matches == MatchesOf(conn, arg[t].query)
            IN  /\ ReturnsOk(t)
                /\ Len(Returned(t)) <= SearchLimit
                /\ FirstByName(Returned(t), matches, SearchLimit)
                /\ \A n \in Limits :
                       \A r \in search_rows(conn, arg[t].query, n) :
                           r.ok /\ FirstByName(r.val, matches, n)

\* C17 witness: search has returned while more records match its query
\* than the largest of the small limits, under different names.
C17_Witness ==
    \E t \in DOMAIN pc :
        /\ AtReturn(t, "search")
        /\ arg[t].query # << >>
        /\ Cardinality(MatchesOf(conn, arg[t].query)) > MaxLimit
        /\ \E i, j \in 1 .. Len(Returned(t)) :
               TextLess(Returned(t)[i].name, Returned(t)[j].name)

\* C18: a call of search with the empty query is about to return Ok with
\* no rows, whatever the store holds, and has neither taken the lock of the
\* connection nor run a statement on it.
C18_EmptySearchReturnsNothing ==
    \A t \in DOMAIN pc :
        (arg[t].op = "search" /\ arg[t].query = << >>) =>
            /\ pc[t] = "return"
            /\ ret[t] = Some(Ok(<< >>))
            /\ snap[t] = None
            /\ lock # t

\* C18 witness: search("") is about to return its empty result while files
\* are stored and another thread holds the lock of the connection.
C18_Witness ==
    \E t, u \in DOMAIN pc :
        /\ t # u
        /\ AtReturn(t, "search")
        /\ arg[t].query = << >>
        /\ conn.files # {}
        /\ lock = u

\* C19: what search_in_directory(dir, "") is about to return is a result
\* get_files_in_directory(dir) gives in the same store state, the same rows
\* in the same order, and it holds every row whose parent is the directory,
\* none cut off.
C19_EmptyQueryIsTheListing ==
    \A t \in DOMAIN pc :
        (AtReturn(t, "search_in_directory") /\ arg[t].query = << >>) =>
            /\ Unwrap(ret[t]) \in get_files_in_directory(conn, arg[t].dir_path)
            /\ ReturnsOk(t)
            /\ Len(Returned(t)) = Cardinality(ChildrenOf(conn, arg[t].dir_path))

\* C19 witness: search_in_directory with the empty query has listed a
\* directory that holds a file and a subdirectory.
C19_Witness ==
    \E t \in DOMAIN pc :
        /\ AtReturn(t, "search_in_directory")
        /\ arg[t].query = << >>
        /\ \E i, j \in 1 .. Len(Returned(t)) :
               Returned(t)[i].file_type = File /\ Returned(t)[j].file_type = Directory

\* C20: what search_in_directory(dir, query) is about to return for a
\* non-empty query holds only records whose parent is normalize(dir) and in
\* whose name or path the query occurs, ignoring case; it has at most 1000
\* rows, every Directory before every File and each kind in ascending order
\* of name.
C20_DirectorySearch ==
    \A t \in DOMAIN pc :
        (AtReturn(t, "search_in_directory") /\ arg[t].query # << >>) =>
            /\ ReturnsOk(t)
            /\ \A i \in 1 .. Len(Returned(t)) :
                   /\ Returned(t)[i].parent = Some(normalize_path(arg[t].dir_path))
                   /\ \/ OccursIgnoringCase(Returned(t)[i].name, arg[t].query)
                      \/ OccursIgnoringCase(Returned(t)[i].path, arg[t].query)
            /\ Len(Returned(t)) <= SearchLimit
            /\ DirectoriesFirst(Returned(t))
            /\ NameAscendingWithinKind(Returned(t))

(***************************************************************************)
(* Properties of search_by_tag.                                            *)
(***************************************************************************)
\* The entries of fs in whose name or path the query occurs, ignoring case,
\* in the order fs has them.
MatchingInOrder(fs, query) ==
    LET occurs(f) == \/ OccursIgnoringCase(f.name, query)
                     \/ OccursIgnoringCase(f.path, query)
    IN  SelectSeq(fs, occurs)

\* C21: what search_by_tag(tag, query) is about to return is never an
\* error; with an empty query it is a list get_files_by_tag(tag) returns,
\* unchanged; with any other query it is the entries of such a list in
\* whose name or path the query occurs ignoring case, all of them and in
\* the same order; and the call has left every table of the store, and so
\* every file_count, as it was.
C21_SearchByTagFiltersTheTagList ==
    \A t \in DOMAIN pc :
        AtReturn(t, "search_by_tag") =>
            /\ ReturnsOk(t)
            /\ Tables(conn) = Unwrap(snap[t])
            /\ ReportedCounts(conn, arg[t].tag_name)
                   = ReportedCounts(Unwrap(snap[t]), arg[t].tag_name)
            /\ \E r \in get_files_by_tag(conn, arg[t].tag_name) :
                   Returned(t) = IF arg[t].query = << >> THEN r.val
                                 ELSE MatchingInOrder(r.val, arg[t].query)

\* C21 witness: search_by_tag has filtered a tag of two files down to the
\* one that holds the query, and holds it in another letter case only.
C21_Witness ==
    \E t \in DOMAIN pc :
        /\ AtReturn(t, "search_by_tag")
        /\ Cardinality(LinkedTo(conn, arg[t].tag_name)) = 2
        /\ Len(Returned(t)) = 1
        /\ ~ Contains(Returned(t)[1].name, arg[t].query)
        /\ ~ Contains(Returned(t)[1].path, arg[t].query)

(***************************************************************************)
(* Properties of concurrent writers.                                       *)
(***************************************************************************)
\* The paths that have a row in files.
StoredPaths(c) == {r.path : r \in c.files}

\* Thread t holds the lock and is about to run the INSERT OR REPLACE of an
\* insert_file whose entry is stored at path.
UpsertsAt(t, path) ==
    /\ lock = t
    /\ pc[t] = "insert_file_files"
    /\ normalize_path(arg[t].entry.path) = path

\* C26: what is stored at a path changes only in the step of a thread that
\* holds the lock inside insert_file for that path, and that step leaves
\* exactly one row there, every field of which is that thread's entry: the
\* record at a path is the whole record of the last insert_file that took
\* the lock, never a mixture of two writers.
C26_LastUpsertWritesTheWholeRecord ==
    [][\/ conn'.files = conn.files
       \/ \A path \in StoredPaths(conn) \cup StoredPaths(conn') :
              RowsAt(conn', path) # RowsAt(conn, path) =>
                  \E t \in DOMAIN pc :
                      /\ UpsertsAt(t, path)
                      /\ Cardinality(RowsAt(conn', path)) = 1
                      /\ \A r \in RowsAt(conn', path) :
                             SameFields(r, arg[t].entry)]_vars

\* C26 witness: the INSERT OR REPLACE of a thread has just replaced the
\* record an earlier insert_file had left at the same path, no field of
\* which it shares, and one row is stored there.
C26_Witness ==
    \E t \in DOMAIN pc :
        /\ pc[t] = "insert_file_fts"
        /\ lock = t
        /\ Cardinality(RowsAt(conn, normalize_path(arg[t].entry.path))) = 1
        /\ \E old \in RowsAt(Unwrap(snap[t]), normalize_path(arg[t].entry.path)) :
               /\ old.name # arg[t].entry.name
               /\ old.size # arg[t].entry.size
               /\ old.modified # arg[t].entry.modified

(***************************************************************************)
(* Properties of the crawler.                                              *)
(***************************************************************************)
\* Thread t has come back from a job of the given kind.
CrawlDone(t, job) == crawl[t].job = job /\ ~ crawl[t].running

\* C22: a shallow crawl of a directory that can be opened returns Ok and
\* has called index_file on every child whose directory entry could be
\* read, whatever failed on the other children (their directory entry,
\* their metadata or the store); only a directory that cannot be opened
\* makes it return Err.
C22_ShallowCrawlSkipsFailures ==
    \A t \in DOMAIN pc :
        CrawlDone(t, "shallow") =>
            IF read_dir(disk, crawl[t].root).ok
            THEN /\ crawl[t].result = Some(Ok(<< >>))
                 /\ crawl[t].called =
                        {p \in crawl[t].listed : ~ Unlisted(disk, p)}
            ELSE crawl[t].result = Some(Err)

\* C22 witness: a shallow crawl has returned Ok although the directory
\* entry or the metadata of one child could not be read and index_file
\* returned Err for another child, whose record is stored.
C22_Witness ==
    \E t \in DOMAIN pc :
        /\ CrawlDone(t, "shallow")
        /\ crawl[t].result = Some(Ok(<< >>))
        /\ \E p, q \in crawl[t].listed :
               /\ p # q
               /\ Unlisted(disk, p) \/ ~ metadata(disk, p).ok
               /\ q \in crawl[t].called \cap crawl[t].failed
               /\ RowsAt(conn, q) # {}

\* path is root or lies below it.
IsUnder(root, path) ==
    \/ path = root
    \/ /\ Len(path) > Len(root)
       /\ SubSeq(path, 1, Len(root)) = root
       /\ root = Root \/ path[Len(root) + 1] = "/"

\* The number of components of a path, and of a path below root.
Components(path) ==
    IF path = Root THEN 0
    ELSE Cardinality({i \in 1 .. Len(path) : path[i] = "/"})

DepthBelow(root, path) == Components(path) - Components(root)

\* The entries of the tree within max_depth levels of root; the tree holds
\* a symbolic link as an entry and nothing beyond it.
WithinDepth(root, max_depth) ==
    {p \in DiskPaths : IsUnder(root, p) /\ DepthBelow(root, p) <= max_depth}

\* What the walk cannot get at: the contents of the directory that cannot
\* be opened, and the child whose directory entry cannot be read.
OutOfReach(d, path) ==
    \/ d.fault = "denied" /\ IsUnder(DiskSub, path) /\ path # DiskSub
    \/ Unlisted(d, path)

\* C23: index_directory_with_depth(root, max_depth) returns Ok whatever
\* failed on the way; it has called index_file on nothing but root and the
\* entries of the tree within max_depth levels of it, none of them beyond a
\* symbolic link, and on every one of them that is there and that no
\* unreadable directory or directory entry hides.
C23_DepthCrawlCoversTheTree ==
    \A t \in DOMAIN pc :
        CrawlDone(t, "depth") =>
            /\ crawl[t].result = Some(Ok(<< >>))
            /\ crawl[t].called \subseteq WithinDepth(crawl[t].root, crawl[t].max_depth)
            /\ \A p \in WithinDepth(crawl[t].root, crawl[t].max_depth) :
                   (p \in disk.present /\ ~ OutOfReach(disk, p))
                       => p \in crawl[t].called

\* C23 witness: a walk to depth 3 has come back after index_file failed on
\* every entry; it went down to the symbolic link at depth 2, which leads
\* back to root, and called index_file on it and on nothing behind it.
C23_Witness ==
    \E t \in DOMAIN pc :
        /\ CrawlDone(t, "depth")
        /\ crawl[t].max_depth = StartupDepth
        /\ DiskLink \in crawl[t].called
        /\ crawl[t].failed = crawl[t].called
        /\ Resolve(disk, DiskLink) = Some(crawl[t].root)

\* index_file has been called with path in the job of thread t and has
\* returned.
IndexFileReturned(t, path) ==
    path \in crawl[t].called /\ crawl[t].path # Some(path)

\* The link of a path to a tag is in file_tags.
Linked(c, path, tag_name) ==
    [file_path |-> path, tag_name |-> tag_name] \in DOMAIN c.file_tags

\* C24: once index_file has returned for a path whose metadata can be
\* read, it has returned Ok, the record of the path is stored and every tag
\* of the path's tag attribute is linked to the path; a path without a
\* well-formed tag attribute is indexed all the same.
C24_IndexFileAttachesTheTags ==
    \A t \in DOMAIN pc :
        \A path \in crawl[t].called :
            (IndexFileReturned(t, path) /\ metadata(disk, path).ok) =>
                /\ path \notin crawl[t].failed
                /\ RowsAt(conn, path) # {}
                /\ \A i \in 1 .. Len(get_macos_tags(disk, path)) :
                       Linked(conn, path, get_macos_tags(disk, path)[i])

\* The directory that holds path, when one does: the path is that
\* directory joined with the name.
ContainedIn(entry) ==
    IF entry.path = Root THEN None
    ELSE Some(CHOOSE dir \in DiskPaths : Join(dir, entry.name) = entry.path)

\* C27: every entry index_file hands to insert_file has size 0 when it is a
\* Directory, modified 0 when the modification time cannot be read or lies
\* before the epoch, and as parent the directory that holds the path, None
\* for "/" alone.
C27_RecordsBuiltByIndexFile ==
    \A t \in DOMAIN pc :
        (pc[t] = "insert_file_files" /\ crawl[t].running) =>
            LET entry == arg[t].entry
            IN  /\ entry.file_type = Directory => entry.size = 0
                /\ (\/ ~ Mtime(disk, entry.path).ok
                    \/ Mtime(disk, entry.path).secs < 0) => entry.modified = 0
                /\ entry.parent = ContainedIn(entry)

\* The stored paths that lie directly in dir, by the path itself and not by
\* the parent column.
StoredIn(c, dir) == {p \in StoredPaths(c) : path_parent(p) = Some(dir)}

\* The paths of a list of entries.
PathsOf(fs) == {fs[i].path : i \in 1 .. Len(fs)}

\* C28: for a directory that has no record of its own,
\* get_files_in_directory(dir) returns the stored paths that lie in dir, each
\* once, and search_in_directory(dir, q) those of them in whose name or
\* path q occurs.
C28_ListingNeedsNoParentRecord ==
    \A t \in DOMAIN pc :
        (/\ pc[t] = "return"
         /\ arg[t].op \in {"get_files_in_directory", "search_in_directory"}
         /\ RowsAt(conn, arg[t].dir_path) = {}) =>
            /\ ReturnsOk(t)
            /\ Len(Returned(t)) = Cardinality(PathsOf(Returned(t)))
            /\ PathsOf(Returned(t)) =
                   IF arg[t].op = "get_files_in_directory"
                   THEN StoredIn(conn, arg[t].dir_path)
                   ELSE {p \in StoredIn(conn, arg[t].dir_path) :
                            OccursIgnoringCase(p, arg[t].query)}

\* C28 witness: after a shallow crawl of a directory that has no record,
\* get_files_in_directory of that directory returns the two children the
\* crawl has indexed.
C28_Witness ==
    \E t \in DOMAIN pc :
        /\ AtReturn(t, "get_files_in_directory")
        /\ CrawlDone(t, "shallow")
        /\ crawl[t].root = arg[t].dir_path
        /\ RowsAt(conn, arg[t].dir_path) = {}
        /\ Cardinality(crawl[t].called) = 2
        /\ PathsOf(Returned(t)) = crawl[t].called

\* C29: no step takes a path out of files: the set of stored paths only
\* grows, also when a path is gone from the filesystem and its directory
\* is crawled again.
C29_StoredPathsOnlyGrow ==
    [][StoredPaths(conn) \subseteq StoredPaths(conn')]_vars

\* C29 witness: a shallow crawl has come back from a directory in which it
\* no longer found "/a/b", and the record of "/a/b" is still stored.
C29_Witness ==
    \E t \in DOMAIN pc :
        /\ CrawlDone(t, "shallow")
        /\ crawl[t].root = PathA
        /\ crawl[t].result = Some(Ok(<< >>))
        /\ DiskFile \notin crawl[t].listed
        /\ DiskFile \in StoredPaths(conn)

(***************************************************************************)
(* Properties of the application.                                          *)
(***************************************************************************)
\* The threads started for a reason, and those of them given dir.
Started(a, kind, dir) ==
    Cardinality({i \in DOMAIN a.threads :
                    a.threads[i].kind = kind /\ a.threads[i].dir = dir})

\* C25: when the application object has been dropped, every thread it
\* spawned has returned: the startup crawl, the shallow crawls started on
\* navigation and those started after a create.
C25_DropJoinsEveryCrawl ==
    app.dropped => \A i \in DOMAIN app.threads : app.threads[i].done

\* The change to dir that the next frame of the folder view has still to
\* answer.
Pending(a, dir) ==
    IF dir = a.folder_current_path /\ Some(dir) # a.last_indexed_path THEN 1 ELSE 0

\* C30: between two frames, every time a directory became the current one
\* a shallow crawl of it was started, once, the change of the last frame
\* aside, which the next frame of the folder view answers; no other crawl
\* was started on navigation; and every successful create in a directory
\* has started a shallow crawl of it.
C30_EveryChangeStartsOneCrawl ==
    \A dir \in Dirs :
        /\ Started(app, "navigation", dir) = app.became[dir] - Pending(app, dir)
        /\ Started(app, "create", dir) = app.created[dir]

(***************************************************************************)
(* C31: a query that fails is shown as an empty list.  In every frame,     *)
(* when the query for the list (get_files_in_directory, search,            *)
(* search_in_directory or search_by_tag) returned Err the list handed to   *)
(* the view is empty, and when get_all_tags returned Err the tag list is   *)
(* empty; the frame runs to its end either way.                            *)
(***************************************************************************)
C31_FailedQueryShowsNothing ==
    /\ ~ app.files_result.ok => app.files = << >>
    /\ ~ app.tags_result.ok => app.tags = << >>
    /\ app.files_result.ok => app.files = RetainVisible(app.files_result.val,
                                                        app.show_hidden_files)

\* The query of the frame failed although the store holds rows it would
\* have returned.
C31_Witness ==
    /\ ~ app.files_result.ok
    /\ app.files = << >>
    /\ \E r \in files_query(conn, app) : r.ok /\ r.val # << >>

(***************************************************************************)
(* C38: the keyboard selection stays inside the list.  At the end of every *)
(* frame selected_file_index is None or an index of the list the frame     *)
(* has shown.                                                              *)
(***************************************************************************)
C38_SelectionInsideTheList ==
    \/ app.selected_file_index = None
    \/ Unwrap(app.selected_file_index) < Len(app.files)

(***************************************************************************)
(* C32: the flag follows the crawler threads.  is_indexing is true exactly *)
(* when some spawned thread (the startup crawl, a shallow crawl started by *)
(* a directory change or by a create) has not returned.                    *)
(***************************************************************************)
C32_FlagFollowsEveryCrawl ==
    app.is_indexing <=> \E i \in DOMAIN app.threads : ~ app.threads[i].done

(***************************************************************************)
(* C36: the flag is cleared once, by the startup thread, at its end.       *)
(* is_indexing is true when the application is built; while it is false    *)
(* the three calls of the startup closure have all returned; once false it *)
(* stays false; and when the thread is scheduled fairly it becomes false,  *)
(* whatever the calls returned.                                            *)
(***************************************************************************)
C36_FlagClearedOnceByStartup ==
    /\ app.is_indexing
    /\ [](~ app.is_indexing =>
             \A t \in Crawlers :
                 /\ crawl[t].jobs = StartupPhases
                 /\ ~ crawl[t].running
                 /\ Len(app.returned) = StartupPhases)
    /\ [][~ app.is_indexing => ~ app'.is_indexing]_vars
    /\ <>(~ app.is_indexing)

\* The flag is false after a run in which a call of the closure returned
\* Err and the crawl of the home directory has stored records.
C36_Witness ==
    /\ ~ app.is_indexing
    /\ \E i \in DOMAIN app.returned : ~ app.returned[i]
    /\ \E r \in conn.files : r.path = DiskSub

(***************************************************************************)
(* C33: no lock is held across calls and every call completes.  A thread   *)
(* that is between two calls on the store (a crawler between insert_file   *)
(* calls, search_in_directory before it calls get_files_in_directory,      *)
(* search_by_tag while it filters) does not hold the Mutex; and with fair  *)
(* scheduling every thread that holds the Mutex frees it, every job of a   *)
(* crawler returns and every call of a caller returns.                     *)
(***************************************************************************)
BetweenCalls ==
    {"idle", "called", "get_files_in_directory_called", "search_by_tag_retain",
     "next_entry", "walk_next", "index_file_metadata", "index_file_tags"}

C33_NoLockAcrossCallsAndProgress ==
    /\ [](\A t \in LockThreads : pc[t] \in BetweenCalls => lock # t)
    /\ \A t \in LockThreads : (lock = t) ~> (lock = NoThread)
    /\ \A t \in Crawlers : crawl[t].running ~> ~ crawl[t].running
    /\ \A t \in Callers : (pc[t] # "idle") ~> (pc[t] = "idle")

\* The crawler waits at the lock() of insert_file while the caller holds
\* the Mutex inside get_files_in_directory, reached from search_in_directory.
C33_Witness ==
    /\ pc[1] = "index_file_metadata"
    /\ crawl[1].running
    /\ lock = 2
    /\ pc[2] = "search_in_directory_delegate"

(***************************************************************************)
(* C35: insert_file leaves tags and file_tags alone, and links only grow.  *)
(* No step removes a row of file_tags, and a step in which a thread        *)
(* executes a statement of insert_file changes neither tags nor file_tags. *)
(***************************************************************************)
C35_UpsertKeepsLinks ==
    [][/\ \A l \in DOMAIN conn.file_tags :
              /\ l \in DOMAIN conn'.file_tags
              /\ conn'.file_tags[l] >= conn.file_tags[l]
       /\ (\E t \in DOMAIN pc :
               /\ pc[t] \in {"insert_file_files", "insert_file_fts"}
               /\ pc'[t] # pc[t])
          => /\ conn'.tags = conn.tags
             /\ conn'.file_tags = conn.file_tags]_vars

(***************************************************************************)
(* C37: a write the store rejects ends the entry, not the crawl.  In the   *)
(* step in which insert_file returns Err into index_file: index_file       *)
(* returns without attempting add_tag_to_file, the path is counted as      *)
(* failed, the tables are left as the call left them, and a crawl of a     *)
(* directory is still running with its remaining entries, while a lone     *)
(* index_file returns the Err.                                             *)
(***************************************************************************)
TagLoop == {"index_file_tags", "add_tag_tags", "add_tag_file_tags"}

====
